---- MODULE Spec2Model ----
(***************************************************************************)
(* schema-driven-html: an HTML template with {{ path:type ... }}           *)
(* interpolations is compiled to a JSON Schema (extractSchemaFromAst),     *)
(* data is validated against it (validateData) and rendered (renderAst).   *)
(*                                                                         *)
(* Strings are sequences of one-character strings, so that split, trim,    *)
(* startsWith, parseInt and the quote-aware scanners work on characters    *)
(* as the code does.  JavaScript values are tagged records.                *)
(***************************************************************************)
EXTENDS Integers, Sequences, FiniteSets, TLC

VARIABLES
    tree,     \* the ElementNode given to extractSchemaFromAst / renderAst, or returned by parseHtml
    data,     \* the data object given to validateData / renderAst
    pc,       \* which call is running: "extract", "validate", "render", "parse", "html", "done"
    heap,     \* the alias maps allocated so far (objects, referred to by index)
    sstack,   \* walkNode's call stack: the elements being visited
    schema,   \* the schema object walkNode builds in place
    calls,    \* the ensurePathNode calls made so far (path, leaf, required)
    verdict,  \* validateData's outcome: "none", "accepted" or "rejected"
    rstack,   \* renderElement's call stack
    out,      \* the chunks renderAst has emitted so far, in order
    reads,    \* the interpolations renderNode has evaluated so far
    error,    \* per call (extract, validate, render, parse): "none" or the error it threw
    src,      \* the text given to parseTextSegments, or the tokens of the html given to parseHtml
    segs,     \* what parseTextSegments returned: its segments or its error
    given,    \* how the input was put together (a ghost: no code reads it)
    Object,   \* the own properties put on the built-in function Object (one per realm)
    INTERPOLATION_RE, \* the lastIndex of the module-level regular expression: its cursor
    returned  \* the calls that have returned or thrown so far, with their results

vars == <<tree, data, pc, heap, sstack, schema, calls, verdict, rstack, out, reads, error, src, segs, given,
          Object, INTERPOLATION_RE, returned>>

----------------------------------------------------------------------------
(* Characters and strings *)

LowerChars == <<"a","b","c","d","e","f","g","h","i","j","k","l","m","n","o","p","q","r","s","t","u","v","w","x","y","z">>

UpperChars == <<"A","B","C","D","E","F","G","H","I","J","K","L","M","N","O","P","Q","R","S","T","U","V","W","X","Y","Z">>

DigitChars == <<"0","1","2","3","4","5","6","7","8","9">>

Range(s) == {s[i] : i \in DOMAIN s}

IndexOf(seq, c) == CHOOSE i \in DOMAIN seq : seq[i] = c

IsDigit(c) == c \in Range(DigitChars)

IsLetter(c) == c \in Range(LowerChars) \cup Range(UpperChars)

\* [A-Za-z_$]
IsIdStart(c) == IsLetter(c) \/ c \in {"_", "$"}

\* [A-Za-z0-9_$]
IsIdChar(c) == IsIdStart(c) \/ IsDigit(c)

\* \s, as far as the inputs go
IsSpace(c) == c \in {" ", "\n", "\t"}

DigitVal(c) == IndexOf(DigitChars, c) - 1

\* const x = e; F(x)
With(e, F(_)) == F(e)

Min(a, b) == IF a < b THEN a ELSE b

Max(a, b) == IF a > b THEN a ELSE b

Slice(s, from, to) == IF from > to THEN << >> ELSE SubSeq(s, from, to)

\* s.slice(n): the characters of s from index n (0-based) on
Drop(s, n) == Slice(s, n + 1, Len(s))

StartsWith(s, p) == Len(p) <= Len(s) /\ SubSeq(s, 1, Len(p)) = p

EndsWith(s, p) == Len(p) <= Len(s) /\ SubSeq(s, Len(s) - Len(p) + 1, Len(s)) = p

RECURSIVE TrimStart(_)
TrimStart(s) == IF s # << >> /\ IsSpace(Head(s)) THEN TrimStart(Tail(s)) ELSE s

RECURSIVE TrimEnd(_)
TrimEnd(s) == IF s # << >> /\ IsSpace(s[Len(s)]) THEN TrimEnd(SubSeq(s, 1, Len(s) - 1)) ELSE s

Trim(s) == TrimEnd(TrimStart(s))

RECURSIVE Concat(_)
Concat(ss) == IF ss = << >> THEN << >> ELSE Head(ss) \o Concat(Tail(ss))

RECURSIVE Join(_, _)
Join(ss, sep) ==
    IF ss = << >> THEN << >>
    ELSE IF Len(ss) = 1 THEN ss[1]
    ELSE ss[1] \o sep \o Join(Tail(ss), sep)

\* s.split(c) for a one-character separator
RECURSIVE SplitChar(_, _)
SplitChar(s, c) ==
    IF \A i \in DOMAIN s : s[i] # c THEN <<s>>
    ELSE LET i == CHOOSE j \in DOMAIN s : s[j] = c /\ \A k \in 1..(j - 1) : s[k] # c
         IN  <<SubSeq(s, 1, i - 1)>> \o SplitChar(Drop(s, i), c)

\* .filter(Boolean) on a list of strings
NonEmpty(ss) == SelectSeq(ss, LAMBDA p : p # << >>)

\* path.split(".").filter(Boolean)
normalizePath(path) == NonEmpty(SplitChar(path, "."))

----------------------------------------------------------------------------
(* JavaScript values *)

Undefined == [t |-> "undefined"]

Null == [t |-> "null"]

Bool(b) == [t |-> "boolean", v |-> b]

\* k is "finite", "NaN", "-0" or "Infinity"; v is the integer of a finite number
Num(n) == [t |-> "number", k |-> "finite", v |-> n]

Infinity == [t |-> "number", k |-> "Infinity", v |-> 0]

NaN == [t |-> "number", k |-> "NaN", v |-> 0]

NegZero == [t |-> "number", k |-> "-0", v |-> 0]

Str(s) == [t |-> "string", v |-> s]

Arr(items) == [t |-> "array", v |-> items]

\* v maps the object's own keys (strings) to values
Obj(f) == [t |-> "object", v |-> f]

EmptyObj == Obj(<< >>)

IsNullish(v) == v.t \in {"undefined", "null"}

\* Number.isFinite(v)
IsFiniteNum(v) == v.t = "number" /\ v.k \in {"finite", "-0"}

\* value !== false && value != null
NotFalse(v) == ~(v.t \in {"undefined", "null"} \/ (v.t = "boolean" /\ ~v.v))

\* !!value
Truthy(v) ==
    CASE v.t \in {"undefined", "null"} -> FALSE
      [] v.t = "boolean" -> v.v
      [] v.t = "number" -> v.k = "Infinity" \/ (v.k = "finite" /\ v.v # 0)
      [] v.t = "string" -> v.v # << >>
      [] OTHER -> TRUE

isPlainObject(v) == v.t = "object"

IsArray(v) == v.t = "array"

RECURSIVE NatToStr(_)
NatToStr(n) == IF n < 10 THEN <<DigitChars[n + 1]>> ELSE NatToStr(n \div 10) \o <<DigitChars[(n % 10) + 1]>>

IntToStr(n) == IF n < 0 THEN <<"-">> \o NatToStr(-n) ELSE NatToStr(n)

\* String(value)
RECURSIVE ToStr(_)
ToStr(v) ==
    CASE v.t = "undefined" -> <<"u","n","d","e","f","i","n","e","d">>
      [] v.t = "null" -> <<"n","u","l","l">>
      [] v.t = "boolean" -> IF v.v THEN <<"t","r","u","e">> ELSE <<"f","a","l","s","e">>
      [] v.t = "number" ->
            IF v.k = "NaN" THEN <<"N","a","N">>
            ELSE IF v.k = "Infinity" THEN <<"I","n","f","i","n","i","t","y">>
            ELSE IntToStr(v.v)
      [] v.t = "string" -> v.v
      [] v.t = "array" ->
            Join([i \in DOMAIN v.v |-> IF IsNullish(v.v[i]) THEN << >> ELSE ToStr(v.v[i])], <<",">>)
      [] OTHER -> <<"[","o","b","j","e","c","t"," ","O","b","j","e","c","t","]">>

IsDigits(s) == s # << >> /\ \A i \in DOMAIN s : IsDigit(s[i])

RECURSIVE DigitsVal(_)
DigitsVal(s) == IF s = << >> THEN 0 ELSE DigitsVal(SubSeq(s, 1, Len(s) - 1)) * 10 + DigitVal(s[Len(s)])

\* Number(string): whitespace is trimmed, "" is 0, a signed decimal integer is
\* its value, anything else (of the characters the inputs use) is NaN
Unsigned(t) == IF t # << >> /\ t[1] \in {"-", "+"} THEN Tail(t) ELSE t

Signed(t, digits) ==
    IF t[1] = "-" THEN (IF DigitsVal(digits) = 0 THEN NegZero ELSE Num(-DigitsVal(digits)))
    ELSE Num(DigitsVal(digits))

TrimmedToNumber(t) ==
    IF t = << >> THEN Num(0)
    ELSE IF ~IsDigits(Unsigned(t)) THEN NaN
    ELSE Signed(t, Unsigned(t))

StrToNumber(s) == TrimmedToNumber(Trim(s))

\* Number(value)
ToNumber(v) ==
    CASE v.t = "undefined" -> NaN
      [] v.t = "null" -> Num(0)
      [] v.t = "boolean" -> IF v.v THEN Num(1) ELSE Num(0)
      [] v.t = "number" -> v
      [] v.t = "string" -> StrToNumber(v.v)
      [] v.t = "array" -> StrToNumber(ToStr(v))
      [] OTHER -> NaN

\* parseInt(s, 10): leading whitespace, an optional sign, then the longest run
\* of digits; NaN when there is none
RECURSIVE DigitPrefix(_)
DigitPrefix(s) == IF s # << >> /\ IsDigit(Head(s)) THEN <<Head(s)>> \o DigitPrefix(Tail(s)) ELSE << >>

parseIntDigits(t, digits) == IF digits = << >> THEN NaN ELSE Signed(t, digits)

parseIntTrimmed(t) == parseIntDigits(t, DigitPrefix(Unsigned(t)))

parseInt(s) == parseIntTrimmed(TrimStart(s))

----------------------------------------------------------------------------
(* Filters (filters.ts) *)

\* the characters of [!-~] the inputs use, and the full-width form of each
\* (the code unit 0xFEE0 above it), written "F" followed by the character
HalfChars == <<"a","b","c","d","e","f","g","h","i","j","k","l","m","n","o","p","q","r","s","t","u","v","w","x","y","z","A","B","C","D","E","F","G","H","I","J","K","L","M","N","O","P","Q","R","S","T","U","V","W","X","Y","Z","0","1","2","3","4","5","6","7","8","9","!","#","$","%","&","'","(",")","*","+",",","-",".","/",":",";","<","=",">","?","@","[","]","^","_","{","|","}","~">>

FullChars == <<"Fa","Fb","Fc","Fd","Fe","Ff","Fg","Fh","Fi","Fj","Fk","Fl","Fm","Fn","Fo","Fp","Fq","Fr","Fs","Ft","Fu","Fv","Fw","Fx","Fy","Fz","FA","FB","FC","FD","FE","FF","FG","FH","FI","FJ","FK","FL","FM","FN","FO","FP","FQ","FR","FS","FT","FU","FV","FW","FX","FY","FZ","F0","F1","F2","F3","F4","F5","F6","F7","F8","F9","F!","F#","F$","F%","F&","F'","F(","F)","F*","F+","F,","F-","F.","F/","F:","F;","F<","F=","F>","F?","F@","F[","F]","F^","F_","F{","F|","F}","F~">>

MapChars(s, from, to) == [i \in DOMAIN s |-> IF s[i] \in Range(from) THEN to[IndexOf(from, s[i])] ELSE s[i]]

toUpperCase(s) == MapChars(s, LowerChars, UpperChars)

toLowerCase(s) == MapChars(s, UpperChars, LowerChars)

toZenkaku(s) == MapChars(s, HalfChars, FullChars)

toHankaku(s) == MapChars(s, FullChars, HalfChars)

\* value ?? fallback
Coalesce(v, fallback) == IF IsNullish(v) THEN fallback ELSE v

\* filter.args[i] ?? fallback (i is 0-based)
Arg(filter, i, fallback) == IF i + 1 \in DOMAIN filter.args THEN filter.args[i + 1] ELSE fallback

\* s.replaceAll(from, to)
RECURSIVE replaceAll(_, _, _)
replaceAll(s, from, to) ==
    IF from = << >> THEN
        IF s = << >> THEN to ELSE to \o <<Head(s)>> \o replaceAll(Tail(s), from, to)
    ELSE IF s = << >> THEN << >>
    ELSE IF StartsWith(s, from) THEN to \o replaceAll(Drop(s, Len(from)), from, to)
    ELSE <<Head(s)>> \o replaceAll(Tail(s), from, to)

\* ToIntegerOrInfinity of a Number(...) result: NaN and -0 become 0
ToInteger(n) == IF n.k = "finite" THEN n.v ELSE 0

RECURSIVE Repeat(_, _)
Repeat(fill, n) == IF n <= 0 THEN << >> ELSE IF Len(fill) >= n THEN SubSeq(fill, 1, n) ELSE fill \o Repeat(fill, n - Len(fill))

\* s.padStart(width, fill)
padStart(s, width, fill) ==
    IF ToInteger(width) <= Len(s) \/ fill = << >> THEN s
    ELSE Repeat(fill, ToInteger(width) - Len(s)) \o s

\* s.slice(start, end)
slice(s, start, end) ==
    LET rel(n) == IF ToInteger(n) < 0 THEN Max(Len(s) + ToInteger(n), 0) ELSE Min(ToInteger(n), Len(s))
    IN  Slice(s, rel(start) + 1, rel(end))

\* Intl.NumberFormat("en-US").format of a non-negative integer's digits
RECURSIVE GroupDigits(_)
GroupDigits(ds) == IF Len(ds) <= 3 THEN ds ELSE GroupDigits(SubSeq(ds, 1, Len(ds) - 3)) \o <<",">> \o SubSeq(ds, Len(ds) - 2, Len(ds))

formatNumber(n) ==
    IF n.k = "-0" THEN <<"-","0">>
    ELSE IF n.v < 0 THEN <<"-">> \o GroupDigits(NatToStr(-n.v))
    ELSE GroupDigits(NatToStr(n.v))

\* numeric.toFixed(digits), for digits in 0..100
toFixed(n, digits) ==
    (IF n.k = "-0" THEN <<"0">> ELSE IntToStr(n.v))
        \o (IF digits > 0 THEN <<".">> \o Repeat(<<"0">>, digits) ELSE << >>)

\* the first token of YYYY|MM|DD|HH|mm|ss that s starts with, or << >>
TokenAt(s) ==
    IF StartsWith(s, <<"Y","Y","Y","Y">>) THEN <<"Y","Y","Y","Y">>
    ELSE IF StartsWith(s, <<"M","M">>) THEN <<"M","M">>
    ELSE IF StartsWith(s, <<"D","D">>) THEN <<"D","D">>
    ELSE IF StartsWith(s, <<"H","H">>) THEN <<"H","H">>
    ELSE IF StartsWith(s, <<"m","m">>) THEN <<"m","m">>
    ELSE IF StartsWith(s, <<"s","s">>) THEN <<"s","s">>
    ELSE << >>

\* format.replace(TOKEN_RE, token => tokens[token]); tokens maps the first
\* character of each token to its text
RECURSIVE applyDateTokens(_, _)
applyDateTokens(format, tokens) ==
    IF format = << >> THEN << >>
    ELSE IF TokenAt(format) # << >>
         THEN tokens[TokenAt(format)[1]] \o applyDateTokens(Drop(format, Len(TokenAt(format))), tokens)
    ELSE <<Head(format)>> \o applyDateTokens(Tail(format), tokens)

DigitsAt(s, from, n) == from + n - 1 <= Len(s) /\ \A i \in from..(from + n - 1) : IsDigit(s[i])

CharAt(s, i, c) == i <= Len(s) /\ s[i] = c

\* /^(\d{4})-(\d{2})-(\d{2})/
MatchesDate(s) == DigitsAt(s, 1, 4) /\ CharAt(s, 5, "-") /\ DigitsAt(s, 6, 2) /\ CharAt(s, 8, "-") /\ DigitsAt(s, 9, 2)

\* /^(\d{2}):(\d{2})(?::(\d{2}))?/
MatchesTime(s) == DigitsAt(s, 1, 2) /\ CharAt(s, 3, ":") /\ DigitsAt(s, 4, 2)

\* /([+-]\d{2}:?\d{2}|Z)$/i
hasOffset(s) ==
    \/ EndsWith(s, <<"Z">>) \/ EndsWith(s, <<"z">>)
    \/ Len(s) >= 6 /\ s[Len(s) - 5] \in {"+", "-"} /\ DigitsAt(s, Len(s) - 4, 2)
         /\ s[Len(s) - 2] = ":" /\ DigitsAt(s, Len(s) - 1, 2)
    \/ Len(s) >= 5 /\ s[Len(s) - 4] \in {"+", "-"} /\ DigitsAt(s, Len(s) - 3, 4)

\* new Date(s) is a valid instant given as YYYY-MM-DDTHH:mm:ssZ
IsUtcInstant(s) ==
    /\ Len(s) = 20 /\ MatchesDate(s) /\ s[11] = "T" /\ MatchesTime(Drop(s, 11))
    /\ s[17] = ":" /\ DigitsAt(s, 18, 2) /\ s[20] = "Z"
    /\ DigitsVal(SubSeq(s, 6, 7)) \in 1..12 /\ DigitsVal(SubSeq(s, 9, 10)) \in 1..28
    /\ DigitsVal(SubSeq(s, 12, 13)) \in 0..23 /\ DigitsVal(SubSeq(s, 15, 16)) \in 0..59
    /\ DigitsVal(SubSeq(s, 18, 19)) \in 0..59

Zeros(n) == [i \in 1..n |-> "0"]

\* the token texts of a source whose date starts at d and whose time starts at h
\* (0 where the source has none)
DateTokens(source, d, h) ==
    [c \in {"Y","M","D","H","m","s"} |->
        CASE c = "Y" -> IF d = 0 THEN Zeros(4) ELSE SubSeq(source, d, d + 3)
          [] c = "M" -> IF d = 0 THEN Zeros(2) ELSE SubSeq(source, d + 5, d + 6)
          [] c = "D" -> IF d = 0 THEN Zeros(2) ELSE SubSeq(source, d + 8, d + 9)
          [] c = "H" -> IF h = 0 THEN Zeros(2) ELSE SubSeq(source, h, h + 1)
          [] c = "m" -> IF h = 0 THEN Zeros(2) ELSE SubSeq(source, h + 3, h + 4)
          [] OTHER -> IF h # 0 /\ CharAt(source, h + 5, ":") /\ DigitsAt(source, h + 6, 2)
                      THEN SubSeq(source, h + 6, h + 7) ELSE Zeros(2)]

formatInstant(source, normalized, format) ==
    IF ~IsUtcInstant(normalized) THEN source
    ELSE applyDateTokens(format, DateTokens(normalized, 1, 12))

formatSource(source, dataType, format) ==
    IF dataType = "date" THEN
        IF ~MatchesDate(source) THEN source ELSE applyDateTokens(format, DateTokens(source, 1, 0))
    ELSE IF dataType = "time" THEN
        IF ~MatchesTime(source) THEN source ELSE applyDateTokens(format, DateTokens(source, 0, 1))
    ELSE formatInstant(source, IF hasOffset(source) THEN source ELSE source \o <<"Z">>, format)

\* The datetime branch is modelled for the display timezone "UTC" and for
\* sources that are either a UTC instant of the shape above or no date at all.
formatDateValue(value, dataType, format, timezone) ==
    IF IsNullish(value) THEN << >> ELSE formatSource(ToStr(value), dataType, format)

Returned(v) == [err |-> "none", v |-> v]

Thrown(e) == [err |-> e, v |-> Undefined]

\* applySingleFilter's switch; text is String(value ?? ""), numeric is
\* Number(value ?? 0), width is Number(filter.args[0] ?? "0") and end is
\* Number(filter.args[1] ?? "0")
filterCase(value, filter, context, text, numeric, width, end) ==
    CASE filter.name = <<"d","e","f","a","u","l","t">> ->
            Returned(IF IsNullish(value) THEN Str(Arg(filter, 0, << >>)) ELSE value)
      [] filter.name = <<"u","p","p","e","r">> -> Returned(Str(toUpperCase(text)))
      [] filter.name = <<"l","o","w","e","r">> -> Returned(Str(toLowerCase(text)))
      [] filter.name = <<"r","e","p","l","a","c","e">> ->
            Returned(Str(replaceAll(text, Arg(filter, 0, << >>), Arg(filter, 1, << >>))))
      [] filter.name = <<"p","a","d","-","l","e","f","t">> ->
            Returned(Str(padStart(text, width, Arg(filter, 1, <<"0">>))))
      [] filter.name = <<"s","l","i","c","e">> -> Returned(Str(slice(text, width, end)))
      [] filter.name = <<"z","e","n","k","a","k","u">> -> Returned(Str(toZenkaku(text)))
      [] filter.name = <<"h","a","n","k","a","k","u">> -> Returned(Str(toHankaku(text)))
      [] filter.name = <<"c","o","m","m","a">> ->
            Returned(Str(IF IsFiniteNum(numeric) THEN formatNumber(numeric) ELSE text))
      [] filter.name = <<"f","i","x","e","d">> ->
            IF ~IsFiniteNum(numeric) THEN Returned(Str(text))
            ELSE IF ToInteger(width) \notin 0..100 THEN Thrown("RangeError")
            ELSE Returned(Str(toFixed(numeric, ToInteger(width))))
      [] filter.name = <<"e","i","t","h","e","r">> ->
            Returned(Str(IF Truthy(value) THEN Arg(filter, 0, << >>) ELSE Arg(filter, 1, << >>)))
      [] filter.name = <<"d","a","t","e","-","f","o","r","m","a","t">> ->
            Returned(Str(formatDateValue(value, context.dataType,
                                         Arg(filter, 0, <<"Y","Y","Y","Y","-","M","M","-","D","D">>),
                                         context.timezone)))
      [] OTHER -> Thrown("Unknown filter")

applySingleFilter(value, filter, context) ==
    filterCase(value, filter, context,
               ToStr(Coalesce(value, Str(<< >>))),
               ToNumber(Coalesce(value, Num(0))),
               ToNumber(Str(Arg(filter, 0, <<"0">>))),
               ToNumber(Str(Arg(filter, 1, <<"0">>))))

\* filters.reduce(applySingleFilter, value); a throw ends the reduction
RECURSIVE applyFilters(_, _, _)
applyFilters(value, filters, context) ==
    IF filters = << >> THEN Returned(value)
    ELSE With(applySingleFilter(value, Head(filters), context),
              LAMBDA first : IF first.err # "none" THEN first
                             ELSE applyFilters(first.v, Tail(filters), context))

----------------------------------------------------------------------------
(* dsl-utils.ts *)

\* the longest prefix of s in [A-Za-z0-9_$.]*
RECURSIVE IdPrefix(_)
IdPrefix(s) ==
    IF s # << >> /\ (IsIdChar(Head(s)) \/ Head(s) = ".") THEN <<Head(s)>> \o IdPrefix(Tail(s)) ELSE << >>

\* expr.trim().match(/^([A-Za-z_$][A-Za-z0-9_$.]*)\s+as\s+([A-Za-z_$][A-Za-z0-9_$]*)$/);
\* ok is FALSE where the code throws "Invalid iteration expression"
parseIterationExpression(expr) ==
    With(Trim(expr), LAMBDA t :
    With(IF t # << >> /\ IsIdStart(t[1]) THEN IdPrefix(t) ELSE << >>, LAMBDA path :
    With(Drop(t, Len(path)), LAMBDA afterPath :
    With(TrimStart(afterPath), LAMBDA afterSpace :
    With(Drop(afterSpace, 2), LAMBDA afterAs :
    With(TrimStart(afterAs), LAMBDA alias :
        IF /\ path # << >>
           /\ afterSpace # afterPath
           /\ StartsWith(afterSpace, <<"a","s">>)
           /\ alias # afterAs
           /\ IsIdStart(alias[1])
           /\ \A i \in DOMAIN alias : IsIdChar(alias[i])
        THEN [ok |-> TRUE, path |-> path, alias |-> alias]
        ELSE [ok |-> FALSE, path |-> << >>, alias |-> << >>]))))))

\* the property names an object has from Object.prototype, as far as the
\* inputs go
InheritedKeys == {<<"c","o","n","s","t","r","u","c","t","o","r">>}

\* the built-in function that made an object or an array
Constructor(name) == [t |-> "function", v |-> name]

\* cursor[key]: own properties of objects, and their constructor; length,
\* single-digit indices and the constructor of arrays
Lookup(cursor, key) ==
    IF cursor.t = "object"
    THEN (IF key \in DOMAIN cursor.v THEN cursor.v[key]
          ELSE IF key \in InheritedKeys THEN Constructor("Object") ELSE Undefined)
    ELSE IF key \in InheritedKeys THEN Constructor("Array")
    ELSE IF key = <<"l","e","n","g","t","h">> THEN Num(Len(cursor.v))
    ELSE IF Len(key) = 1 /\ IsDigit(key[1]) /\ DigitVal(key[1]) < Len(cursor.v) THEN cursor.v[DigitVal(key[1]) + 1]
    ELSE Undefined

RECURSIVE FollowPath(_, _)
FollowPath(cursor, parts) ==
    IF parts = << >> THEN cursor
    ELSE IF ~isPlainObject(cursor) /\ ~IsArray(cursor) THEN Undefined
    ELSE FollowPath(Lookup(cursor, Head(parts)), Tail(parts))

\* aliases is a function from alias names to values
getByPath(root, aliases, path) ==
    LET parts == normalizePath(path)
    IN  IF parts = << >> THEN Undefined
        ELSE IF parts[1] \in DOMAIN aliases THEN FollowPath(aliases[parts[1]], Tail(parts))
        ELSE FollowPath(root, parts)

\* the value as it is
escapeNothing(value) == value

\* value.replaceAll("&", "&amp;").replaceAll("<", "&lt;").replaceAll(">", "&gt;")
\*      .replaceAll('"', "&quot;")
escapeHtml(value) ==
    replaceAll(replaceAll(replaceAll(replaceAll(value, <<"&">>, <<"&","a","m","p",";">>), <<"<">>, <<"&","l","t",";">>), <<">">>, <<"&","g","t",";">>),
               <<"\"">>, <<"&","q","u","o","t",";">>)

\* aliases is a function from alias names to resolved path prefixes;
\* aliases[parts[0]] is undefined when the name is not bound
\* the path as written, the alias left in place
resolveNothing(path, aliases) == path

resolvePathWithAliases(path, aliases) ==
    LET parts == normalizePath(path)
    IN  IF parts = << >> THEN path
        ELSE IF parts[1] \notin DOMAIN aliases \/ aliases[parts[1]] = << >> THEN path
        ELSE IF Len(parts) = 1 THEN aliases[parts[1]]
        ELSE aliases[parts[1]] \o <<".">> \o Join(Tail(parts), <<".">>)

isVoidTag(tagName) == tagName \in {"br", "hr", "img", "meta"}

\* Math.min(a, b) and Math.max(a, b) of two numbers
MathMin(a, b) ==
    IF a.k = "NaN" \/ b.k = "NaN" THEN NaN
    ELSE IF a.k = "Infinity" THEN b
    ELSE IF b.k = "Infinity" THEN a
    ELSE IF a.v < b.v THEN a
    ELSE IF b.v < a.v THEN b
    ELSE IF a.k = "-0" THEN a ELSE b

MathMax(a, b) ==
    IF a.k = "NaN" \/ b.k = "NaN" THEN NaN
    ELSE IF a.k = "Infinity" \/ b.k = "Infinity" THEN Infinity
    ELSE IF a.v > b.v THEN a
    ELSE IF b.v > a.v THEN b
    ELSE IF a.k = "-0" THEN b ELSE a

\* index < n, for an integer index and a number n
IndexBelow(index, n) == n.k = "Infinity" \/ (n.k \in {"finite", "-0"} /\ index < n.v)

----------------------------------------------------------------------------
(* The tree (types.ts): a text node is [type, segments], an element is       *)
(* [type, tagName, attributes, children]; a node is named by its position,  *)
(* the child indices leading to it from the root.                           *)

RECURSIVE NodeAt(_, _)
NodeAt(node, pos) == IF pos = << >> THEN node ELSE NodeAt(node.children[Head(pos)], Tail(pos))

\* node.attributes[name] is a non-empty string
HasAttr(node, name) == name \in DOMAIN node.attributes /\ node.attributes[name] # << >>

Has(obj, key) == key \in DOMAIN obj


\* the names of the head-level meta declarations
TIMEZONE == <<"t","i","m","e","z","o","n","e">>

EXAMPLES_DELIMITER == <<"s","e","m","a","n","t","i","c",":","e","x","a","m","p","l","e","s","-","d","e","l","i","m","i","t","e","r">>

SEMANTIC_DESCRIPTION == <<"s","e","m","a","n","t","i","c","-","d","e","s","c","r","i","p","t","i","o","n",":">>

SEMANTIC_INSTRUCTION == <<"s","e","m","a","n","t","i","c","-","i","n","s","t","r","u","c","t","i","o","n",":">>

SEMANTIC_EXAMPLES == <<"s","e","m","a","n","t","i","c","-","e","x","a","m","p","l","e","s",":">>

\* the elements of a tree in walkElements' order
RECURSIVE walkElements(_)
walkElements(root) ==
    <<root>> \o Concat([i \in DOMAIN root.children |->
                            IF root.children[i].type = "element" THEN walkElements(root.children[i])
                            ELSE << >>])

\* node.attributes[name]: Undefined or a string value
AttrValue(node, name) == IF name \in DOMAIN node.attributes THEN Str(node.attributes[name]) ELSE Undefined

\* what walkElements' visitor makes of one element
configEntry(tagName, name, content, config) ==
    IF tagName # "meta" \/ content = << >> THEN config
    ELSE IF name = TIMEZONE THEN [config EXCEPT !.timezone = content]
    ELSE IF name = EXAMPLES_DELIMITER THEN [config EXCEPT !.examplesDelimiter = content]
    ELSE config

\* node.attributes[name]?.trim() ?? ""
TrimmedAttr(node, name) == IF Has(node.attributes, name) THEN Trim(node.attributes[name]) ELSE << >>

RECURSIVE FoldConfig(_, _)
FoldConfig(elements, config) ==
    IF elements = << >> THEN config
    ELSE FoldConfig(Tail(elements),
                    configEntry(Head(elements).tagName, TrimmedAttr(Head(elements), "name"),
                                TrimmedAttr(Head(elements), "content"), config))

collectGlobalConfig(root) ==
    FoldConfig(walkElements(root), [timezone |-> <<"U","T","C">>, examplesDelimiter |-> <<";">>])

----------------------------------------------------------------------------
(* Alias maps are objects: heap[ref] is the content of the map ref.  *)

\* { ...map }: a new object with the entries of heap[ref]
cloneAliasMap(h, ref) == [heap |-> Append(h, h[ref]), ref |-> Len(h) + 1]

\* the map itself instead of a copy of it
sharePathAliasMap(h, ref) == [heap |-> h, ref |-> ref]

clonePathAliasMap(h, ref) == [heap |-> Append(h, h[ref]), ref |-> Len(h) + 1]

----------------------------------------------------------------------------
(* renderer.ts *)

CONTROL_ATTRIBUTES ==
    {"data-page", "data-repeat", "data-if", "data-break-before", "data-break-after",
     "data-fixed-rows", "data-max-rows", "data-format", "data-semantic-description",
     "data-semantic-instruction", "data-semantic-examples"}

\* the attributes of the rendered open tag, by name
buildRenderedAttributes(node) ==
    LET styleParts ==
            (IF HasAttr(node, "style") THEN <<node.attributes["style"]>> ELSE << >>)
            \o (IF HasAttr(node, "data-break-before")
                THEN <<<<"p","a","g","e","-","b","r","e","a","k","-","b","e","f","o","r","e",":">>
                        \o node.attributes["data-break-before"]>>
                ELSE << >>)
            \o (IF HasAttr(node, "data-break-after")
                THEN <<<<"p","a","g","e","-","b","r","e","a","k","-","a","f","t","e","r",":">>
                        \o node.attributes["data-break-after"]>>
                ELSE << >>)
        plain == {k \in DOMAIN node.attributes : k \notin CONTROL_ATTRIBUTES \cup {"style"}}
    IN  [k \in plain \cup (IF styleParts # << >> THEN {"style"} ELSE {}) |->
            IF k = "style" THEN escapeHtml(Join(styleParts, <<";"," ">>))
            ELSE escapeHtml(node.attributes[k])]

OpenTag(node) == [k |-> "open", tagName |-> node.tagName, attrs |-> buildRenderedAttributes(node)]

CloseTag(node) == [k |-> "close", tagName |-> node.tagName]

TextChunk(s) == [k |-> "text", v |-> s]

\* A frame of the renderer's call stack.  fn is the function running:
\* "renderAst" (about to render the root), "renderElementOnce" (mapping over
\* the children of the element at pos; i is the next child) or
\* "renderIteratedElement" (in its loop; i is the loop's index).  ref is the
\* alias map of the frame's context.
RenderFrame(fn, pos, ref, i) ==
    [fn |-> fn, pos |-> pos, ref |-> ref, i |-> i,
     alias |-> << >>, list |-> << >>, effectiveLength |-> Num(0), totalRows |-> Num(0)]

Top(stack) == stack[Len(stack)]

Pop(stack) == SubSeq(stack, 1, Len(stack) - 1)

\* the stack with the top frame's i advanced by one
Advance(stack) == [stack EXCEPT ![Len(stack)].i = @ + 1]

\* the top frame still has a child to render
HasChild(stack) ==
    /\ stack # << >>
    /\ \/ Top(stack).fn = "renderAst" /\ Top(stack).i = 1
       \/ Top(stack).fn = "renderElementOnce"
            /\ Top(stack).i <= Len(NodeAt(tree, Top(stack).pos).children)

ChildPos(stack) ==
    IF Top(stack).fn = "renderAst" THEN << >> ELSE Top(stack).pos \o <<Top(stack).i>>

\* the instance being rendered lies in a padding row of some enclosing iteration
InPadding(stack) ==
    \E k \in DOMAIN stack :
        /\ stack[k].fn = "renderIteratedElement"
        /\ ~IndexBelow(stack[k].i - 1, stack[k].effectiveLength)

\* one segment of a text node: the value read, what the filters made of it
\* and the text emitted
renderInterpolation(segment, resolved, timezone) ==
    With(applyFilters(resolved, segment.filters, [dataType |-> segment.dataType, timezone |-> timezone]),
         LAMBDA filtered :
            [kind |-> "interpolation", pos |-> << >>, padding |-> FALSE,
             path |-> segment.path, nullable |-> segment.nullable,
             filters |-> segment.filters, dataType |-> segment.dataType, value |-> resolved,
             err |-> filtered.err,
             text |-> IF filtered.err # "none" \/ IsNullish(filtered.v) THEN << >>
                      ELSE escapeHtml(ToStr(filtered.v))])

renderSegment(segment, root, aliases, timezone) ==
    IF segment.kind = "literal"
    THEN [kind |-> "literal", err |-> "none", text |-> escapeHtml(segment.value)]
    ELSE renderInterpolation(segment, getByPath(root, aliases, segment.path), timezone)

\* the index of the first segment whose filters threw, or 0
RECURSIVE FirstThrow(_, _)
FirstThrow(done, j) ==
    IF j > Len(done) THEN 0 ELSE IF done[j].err # "none" THEN j ELSE FirstThrow(done, j + 1)

\* renderElementOnce(node, context) as far as its map over the children:
\* the stack and output after the call has skipped the element, emitted a
\* void tag, or emitted the open tag and started on the children
renderElementOnce(pos, ref, aliases, stack, output) ==
    LET node == NodeAt(tree, pos)
    IN  IF HasAttr(node, "data-if")
           /\ ~Truthy(getByPath(data, aliases, node.attributes["data-if"]))
        THEN [rstack |-> stack, out |-> output]
        ELSE IF node.tagName = "meta" THEN [rstack |-> stack, out |-> output]
        ELSE IF isVoidTag(node.tagName)
        THEN [rstack |-> stack, out |-> Append(output, OpenTag(node))]
        ELSE [rstack |-> Append(stack, RenderFrame("renderElementOnce", pos, ref, 1)),
              out |-> Append(output, OpenTag(node))]

\* data-repeat looked at before data-page
repeatBeforePage(node) == IF HasAttr(node, "data-repeat") THEN "data-repeat" ELSE "data-page"

IterationAttr(node) == IF HasAttr(node, "data-page") THEN "data-page" ELSE "data-repeat"

IsIterated(node) == HasAttr(node, "data-page") \/ HasAttr(node, "data-repeat")

\* renderAst(root, data): the context starts with an empty alias map
RenderStart ==
    /\ pc = "validated"
    /\ pc' = "render"
    /\ heap' = Append(heap, << >>)
    /\ rstack' = <<RenderFrame("renderAst", << >>, Len(heap) + 1, 1)>>
    /\ out' = << >>
    /\ reads' = << >>
    /\ UNCHANGED <<tree, data, sstack, schema, calls, verdict, error, src, segs, given, Object, INTERPOLATION_RE, returned>>

\* renderNode on a text child: every segment in order; a throwing filter ends the call
RenderText ==
    /\ pc = "render" /\ HasChild(rstack)
    /\ NodeAt(tree, ChildPos(rstack)).type = "text"
    /\ \E done \in {[j \in DOMAIN NodeAt(tree, ChildPos(rstack)).segments |->
                        renderSegment(NodeAt(tree, ChildPos(rstack)).segments[j], data,
                                      heap[Top(rstack).ref], collectGlobalConfig(tree).timezone)]} :
       \E threw \in {FirstThrow(done, 1)} :
           /\ reads' = [r \in 1..Len(SelectSeq(SubSeq(done, 1, IF threw = 0 THEN Len(done) ELSE threw),
                                                LAMBDA s : s.kind = "interpolation")) |->
                            [SelectSeq(SubSeq(done, 1, IF threw = 0 THEN Len(done) ELSE threw),
                                       LAMBDA s : s.kind = "interpolation")[r]
                                EXCEPT !.pos = ChildPos(rstack), !.padding = InPadding(rstack)]]
           /\ IF threw = 0
              THEN /\ out' = Append(out, TextChunk(Concat([j \in DOMAIN done |-> done[j].text])))
                   /\ rstack' = Advance(rstack)
                   /\ UNCHANGED <<pc, error>>
              ELSE /\ error' = [error EXCEPT !.render = done[threw].err]
                   /\ pc' = "done"
                   /\ rstack' = << >>
                   /\ out' = out
    /\ UNCHANGED <<tree, data, heap, sstack, schema, calls, verdict, src, segs, given, Object, INTERPOLATION_RE, returned>>

\* renderElement on a child without data-page and data-repeat
RenderPlain ==
    /\ pc = "render" /\ HasChild(rstack)
    /\ NodeAt(tree, ChildPos(rstack)).type = "element"
    /\ ~IsIterated(NodeAt(tree, ChildPos(rstack)))
    /\ \E after \in {renderElementOnce(ChildPos(rstack), Top(rstack).ref, heap[Top(rstack).ref],
                                        Advance(rstack), out)} :
           rstack' = after.rstack /\ out' = after.out
    /\ reads' = << >>
    /\ UNCHANGED <<tree, data, pc, heap, sstack, schema, calls, verdict, error, src, segs, given, Object, INTERPOLATION_RE, returned>>

\* renderIteratedElement up to its loop: the expression, the list, the row counts
iterationFrame(pos, ref, alias, list, effectiveLength, fixedCount) ==
    [fn |-> "renderIteratedElement", pos |-> pos, ref |-> ref, i |-> 0,
     alias |-> alias, list |-> list.v,
     effectiveLength |-> effectiveLength,
     totalRows |-> MathMax(effectiveLength, fixedCount)]

iterateList(node, pos, ref, alias, list) ==
    IF ~IsArray(list) THEN [err |-> "none", frames |-> << >>]
    ELSE [err |-> "none",
          frames |-> <<iterationFrame(pos, ref, alias, list,
                          MathMin(Num(Len(list.v)),
                                  IF HasAttr(node, "data-max-rows")
                                  THEN parseInt(node.attributes["data-max-rows"]) ELSE Infinity),
                          IF HasAttr(node, "data-fixed-rows")
                          THEN parseInt(node.attributes["data-fixed-rows"]) ELSE Num(0))>>]

iterateParsed(node, pos, ref, aliases, parsed) ==
    IF ~parsed.ok THEN [err |-> "Invalid iteration expression", frames |-> << >>]
    ELSE iterateList(node, pos, ref, parsed.alias, getByPath(data, aliases, parsed.path))

renderIteratedElement(pos, ref, aliases) ==
    iterateParsed(NodeAt(tree, pos), pos, ref, aliases,
                  parseIterationExpression(
                      NodeAt(tree, pos).attributes[IterationAttr(NodeAt(tree, pos))]))

\* renderElement on a child with data-page or data-repeat
RenderIterated ==
    /\ pc = "render" /\ HasChild(rstack)
    /\ NodeAt(tree, ChildPos(rstack)).type = "element"
    /\ IsIterated(NodeAt(tree, ChildPos(rstack)))
    /\ \E call \in {renderIteratedElement(ChildPos(rstack), Top(rstack).ref, heap[Top(rstack).ref])} :
           IF call.err = "none"
           THEN /\ rstack' = Advance(rstack) \o call.frames
                /\ UNCHANGED <<pc, error>>
           ELSE /\ error' = [error EXCEPT !.render = call.err]
                /\ pc' = "done"
                /\ rstack' = << >>
    /\ reads' = << >>
    /\ UNCHANGED <<tree, data, heap, out, sstack, schema, calls, verdict, src, segs, given, Object, INTERPOLATION_RE, returned>>

\* the entries the loop body writes into the instance's alias map, last write first
instanceBindings(frame) ==
    (<<"$","p","a","g","e">> :>
        Obj((<<"i","n","d","e","x">> :> Num(frame.i))
            @@ (<<"n","u","m","b","e","r">> :> Num(frame.i + 1))
            @@ (<<"c","o","u","n","t">> :> frame.totalRows)))
    @@ (<<"$","i","n","d","e","x">> :> Num(frame.i))
    @@ (frame.alias :> IF IndexBelow(frame.i, frame.effectiveLength)
                       THEN frame.list[frame.i + 1] ELSE EmptyObj)

\* one turn of renderIteratedElement's loop
RenderInstance ==
    /\ pc = "render" /\ rstack # << >>
    /\ Top(rstack).fn = "renderIteratedElement"
    /\ IndexBelow(Top(rstack).i, Top(rstack).totalRows)
    /\ \E frame \in {Top(rstack)} :
       \E cloned \in {cloneAliasMap(heap, frame.ref)} :
       \E aliases \in {instanceBindings(frame) @@ cloned.heap[cloned.ref]} :
       \E after \in {renderElementOnce(frame.pos, cloned.ref, aliases, Advance(rstack), out)} :
           /\ heap' = [cloned.heap EXCEPT ![cloned.ref] = aliases]
           /\ rstack' = after.rstack
           /\ out' = after.out
    /\ reads' = << >>
    /\ UNCHANGED <<tree, data, pc, sstack, schema, calls, verdict, error, src, segs, given, Object, INTERPOLATION_RE, returned>>

\* the loop of renderIteratedElement ends
RenderIterationEnd ==
    /\ pc = "render" /\ rstack # << >>
    /\ Top(rstack).fn = "renderIteratedElement"
    /\ ~IndexBelow(Top(rstack).i, Top(rstack).totalRows)
    /\ rstack' = Pop(rstack)
    /\ reads' = << >>
    /\ UNCHANGED <<tree, data, pc, heap, out, sstack, schema, calls, verdict, error, src, segs, given, Object, INTERPOLATION_RE, returned>>

\* renderElementOnce returns: the children are done, the close tag follows
RenderClose ==
    /\ pc = "render" /\ rstack # << >>
    /\ Top(rstack).fn = "renderElementOnce" /\ ~HasChild(rstack)
    /\ out' = Append(out, CloseTag(NodeAt(tree, Top(rstack).pos)))
    /\ rstack' = Pop(rstack)
    /\ reads' = << >>
    /\ UNCHANGED <<tree, data, pc, heap, sstack, schema, calls, verdict, error, src, segs, given, Object, INTERPOLATION_RE, returned>>

\* renderAst returns
RenderReturn ==
    /\ pc = "render" /\ rstack # << >>
    /\ Top(rstack).fn = "renderAst" /\ ~HasChild(rstack)
    /\ pc' = "done"
    /\ rstack' = << >>
    /\ reads' = << >>
    /\ UNCHANGED <<tree, data, heap, out, sstack, schema, calls, verdict, error, src, segs, given, Object, INTERPOLATION_RE, returned>>


----------------------------------------------------------------------------
(* schema-extractor.ts                                                      *)
(* A schema object is a function from its keys ("type", "properties",       *)
(* "required", "items", "format", "enum", ...) to their values.  The value  *)
(* of "type" is the sequence of its type names: <<"string">> for the bare   *)
(* name "string", <<"string", "null">> for the array ["string", "null"].    *)
(* "properties" maps property names (strings) to schema objects; "required" *)
(* is a list of property names.                                             *)

\* obj[key] = value
Set(obj, key, value) == (key :> value) @@ obj

EmptyObjectSchema == [type |-> <<"object">>, properties |-> << >>, required |-> << >>]

EmptyArraySchema == [type |-> <<"array">>, items |-> EmptyObjectSchema]

mapTypeToSchema(dataType, nullable) ==
    LET baseType == IF dataType \in {"date", "time", "datetime"} THEN "string" ELSE dataType
        node == [type |-> IF nullable THEN <<baseType, "null">> ELSE <<baseType>>]
    IN  CASE dataType = "date" -> Set(node, "format", "date")
          [] dataType = "time" -> Set(node, "format", "time")
          [] dataType = "datetime" -> Set(node, "format", "date-time")
          [] OTHER -> node

constraintKeyword(kind) ==
    CASE kind = "enum" -> "enum"
      [] kind = "min" -> "minimum"
      [] kind = "max" -> "maximum"
      [] kind = "exMin" -> "exclusiveMinimum"
      [] kind = "exMax" -> "exclusiveMaximum"
      [] kind = "step" -> "multipleOf"
      [] kind = "pattern" -> "pattern"
      [] kind = "fixed" -> "const"
      [] kind = "minLength" -> "minLength"
      [] kind = "maxLength" -> "maxLength"
      [] OTHER -> ""

\* An array object: its elements and whose object it is.  node.enum =
\* constraint.values makes the schema refer to the array of the tree, the only
\* array a schema takes from the tree; value.map(...) makes a new array.
ArrayOf(owner, elements) == [owner |-> owner, array |-> elements]

mapArray(value) == ArrayOf("schema", value.array)

\* the loop over the constraints: each sets its keyword, a later one of the
\* same kind overwrites an earlier one
RECURSIVE applyConstraints(_, _)
applyConstraints(node, constraints) ==
    IF constraints = << >> THEN node
    ELSE applyConstraints(
            IF constraintKeyword(Head(constraints).kind) = "" THEN node
            ELSE Set(node, constraintKeyword(Head(constraints).kind),
                     IF Head(constraints).kind = "enum" THEN ArrayOf("tree", Head(constraints).values)
                     ELSE Head(constraints).value),
            Tail(constraints))

buildFieldSchema(dataType, nullable, constraints) ==
    applyConstraints(mapTypeToSchema(dataType, nullable), constraints)

\* node.properties, an empty object being put there when there is none
ensureObjectProperties(node) == IF Has(node, "properties") THEN node ELSE Set(node, "properties", << >>)

pushRequired(node, key) ==
    IF ~Has(node, "required") THEN Set(node, "required", <<key>>)
    ELSE IF key \in Range(node.required) THEN node
    ELSE Set(node, "required", Append(node.required, key))

ArraySuffix == <<"[", "]">>

\* the key of a path part: the part without a trailing "[]"
PartKey(part) == IF EndsWith(part, ArraySuffix) THEN SubSeq(part, 1, Len(part) - 2) ELSE part

\* properties[key], or the object the code puts there when there is none
PropertyOr(properties, key, fresh) == IF Has(properties, key) THEN properties[key] ELSE fresh

\* A schema object that is the built-in function Object: properties is an
\* object literal, so properties["constructor"] is Object.prototype.constructor
\* when properties has no such key of its own.  The function is one object for
\* all calls; its own enumerable properties are the variable Object.
ObjectRef == "builtin" :> "Object"

IsObjectRef(node) == Has(node, "builtin")

\* properties[key] is the function Object
IsBuiltin(properties, key) ==
    IF Has(properties, key) THEN IsObjectRef(properties[key]) ELSE key \in InheritedKeys

\* no property of what is there
SpreadNothing(properties, key, ctor) == << >>

\* { ...(properties[key] ?? {}) }: the own enumerable properties of what is there
SpreadOf(properties, key, ctor) ==
    IF IsBuiltin(properties, key) THEN ctor ELSE PropertyOr(properties, key, << >>)

WithItems(node) == IF Has(node, "items") THEN node ELSE Set(node, "items", EmptyObjectSchema)

\* The loop of ensurePathNode from `current` on: node is the object `current`
\* after the rest of the path has been created or merged below it, and Object
\* is the function Object (ctor before) after what the loop has put on it.
\* Where properties[key] is the function Object, the loop goes on with it as
\* current; the inputs have no path that comes to it twice.
RECURSIVE ensurePathNode(_, _, _, _, _)
ensurePathLeaf(current, ctor, properties, key, leafSchema, required) ==
    [node |-> IF required
              THEN pushRequired(Set(current, "properties",
                                    Set(properties, key, leafSchema @@ SpreadOf(properties, key, ctor))), key)
              ELSE Set(current, "properties",
                       Set(properties, key, leafSchema @@ SpreadOf(properties, key, ctor))),
     Object |-> ctor]

ensurePathOnObject(current, ctor, properties, key, path, leafSchema, required) ==
    [node |-> pushRequired(Set(current, "properties", Set(properties, key, ObjectRef)), key),
     Object |-> IF EndsWith(Head(path), ArraySuffix)
                THEN Set(WithItems(ctor), "items",
                         ensurePathNode(WithItems(ctor).items, ctor, Tail(path), leafSchema, required).node)
                ELSE ensurePathNode(ctor, ctor, Tail(path), leafSchema, required).node]

ensurePathBelow(current, properties, key, child(_), below) ==
    [node |-> pushRequired(Set(current, "properties", Set(properties, key, child(below.node))), key),
     Object |-> below.Object]

ensurePathStep(current, ctor, properties, key, path, leafSchema, required) ==
    IF Len(path) = 1 THEN ensurePathLeaf(current, ctor, properties, key, leafSchema, required)
    ELSE IF IsBuiltin(properties, key)
    THEN ensurePathOnObject(current, ctor, properties, key, path, leafSchema, required)
    ELSE IF EndsWith(Head(path), ArraySuffix) THEN
        ensurePathBelow(current, properties, key,
            LAMBDA items : Set(WithItems(PropertyOr(properties, key, EmptyArraySchema)), "items", items),
            ensurePathNode(WithItems(PropertyOr(properties, key, EmptyArraySchema)).items, ctor,
                           Tail(path), leafSchema, required))
    ELSE
        ensurePathBelow(current, properties, key, LAMBDA objNode : objNode,
            ensurePathNode(PropertyOr(properties, key, EmptyObjectSchema), ctor,
                           Tail(path), leafSchema, required))

ensurePathNode(current, ctor, path, leafSchema, required) ==
    IF path = << >> THEN [node |-> current, Object |-> ctor]
    ELSE ensurePathStep(ensureObjectProperties(current), ctor, ensureObjectProperties(current).properties,
                        PartKey(Head(path)), path, leafSchema, required)

ensureArrayPath(rootSchema, ctor, path, required) ==
    ensurePathNode(rootSchema, ctor, normalizePath(path), EmptyArraySchema, required)

applyInterpolationSchema(rootSchema, ctor, path, interpolation) ==
    ensurePathNode(rootSchema, ctor, normalizePath(path),
                   buildFieldSchema(interpolation.dataType, interpolation.nullable, interpolation.constraints),
                   ~interpolation.nullable)

\* The places of a schema are named by step lists: a property name (a string)
\* steps into "properties", the string "[]" written ArraySuffix steps into
\* "items".  StepsOf is the step list getFieldSchema follows for a path: the
\* last part's "[]" is not followed.
RECURSIVE StepsOf(_)
StepsOf(parts) ==
    IF parts = << >> THEN << >>
    ELSE IF Len(parts) = 1 THEN <<PartKey(parts[1])>>
    ELSE <<PartKey(parts[1])>> \o (IF EndsWith(parts[1], ArraySuffix) THEN <<ArraySuffix>> ELSE << >>)
            \o StepsOf(Tail(parts))

\* there is a schema object at the step list
RECURSIVE ExistsAtSteps(_, _)
ExistsAtSteps(node, steps) ==
    IF steps = << >> THEN TRUE
    ELSE IF Head(steps) = ArraySuffix
         THEN Has(node, "items") /\ ExistsAtSteps(node.items, Tail(steps))
    ELSE /\ Has(node, "properties") /\ Has(node.properties, Head(steps))
         /\ ExistsAtSteps(node.properties[Head(steps)], Tail(steps))

\* the schema object at a step list that ExistsAtSteps
RECURSIVE NodeAtSteps(_, _)
NodeAtSteps(node, steps) ==
    IF steps = << >> THEN node
    ELSE IF Head(steps) = ArraySuffix THEN NodeAtSteps(node.items, Tail(steps))
    ELSE NodeAtSteps(node.properties[Head(steps)], Tail(steps))

\* the schema with the object at a step list replaced
RECURSIVE ReplaceAtSteps(_, _, _)
ReplaceAtSteps(node, steps, new) ==
    IF steps = << >> THEN new
    ELSE IF Head(steps) = ArraySuffix
         THEN Set(node, "items", ReplaceAtSteps(node.items, Tail(steps), new))
    ELSE Set(node, "properties",
             Set(node.properties, Head(steps), ReplaceAtSteps(node.properties[Head(steps)], Tail(steps), new)))

\* the number of steps after which the walk along a step list comes to the
\* function Object, 0 when it does not
RECURSIVE CrossFrom(_, _, _)
CrossFrom(node, steps, done) ==
    IF steps = << >> THEN 0
    ELSE IF Head(steps) = ArraySuffix
         THEN (IF Has(node, "items") THEN CrossFrom(node.items, Tail(steps), done + 1) ELSE 0)
    ELSE IF ~Has(node, "properties") \/ ~Has(node.properties, Head(steps)) THEN 0
    ELSE IF IsObjectRef(node.properties[Head(steps)]) THEN done + 1
    ELSE CrossFrom(node.properties[Head(steps)], Tail(steps), done + 1)

fieldSchemaAt(rootSchema, ctor, steps, crossed) ==
    IF crossed = 0
    THEN [found |-> steps # << >> /\ ExistsAtSteps(rootSchema, steps), steps |-> steps, onObject |-> FALSE]
    ELSE [found |-> ExistsAtSteps(ctor, Drop(steps, crossed)), steps |-> Drop(steps, crossed),
          onObject |-> TRUE]

\* getFieldSchema(rootSchema, path): found is FALSE where the code returns
\* null, and steps names the object it returns otherwise, from the root
\* schema or (onObject) from the function Object
getFieldSchema(rootSchema, ctor, path) ==
    fieldSchemaAt(rootSchema, ctor, StepsOf(normalizePath(path)),
                  CrossFrom(rootSchema, StepsOf(normalizePath(path)), 0))

\* semantic is Undefined or [description, instruction, examples], each
\* Undefined, a string value or (examples) a list of strings
applySemantic(target, semantic) ==
    IF semantic.t = "undefined" THEN target
    ELSE (IF semantic.examples.t = "array" /\ semantic.examples.v # << >>
          THEN "examples" :> semantic.examples.v ELSE << >>)
         @@ (IF Truthy(semantic.instruction) THEN "x-instruction" :> semantic.instruction.v ELSE << >>)
         @@ (IF Truthy(semantic.description) THEN "description" :> semantic.description.v ELSE << >>)
         @@ target

\* the characters in UTF-16 code unit order
CodeOrder == <<" ","!","#","$","%","&","'","(",")","*","+",",","-",".","/">> \o DigitChars
                \o <<":",";","<","=",">","?","@">> \o UpperChars \o <<"[","]","^","_">> \o LowerChars
                \o <<"{","|","}","~">>

CodeOf(c) == IndexOf(CodeOrder, c)

\* a < b as Array.prototype.sort() compares strings
RECURSIVE StrLess(_, _)
StrLess(a, b) ==
    IF b = << >> THEN FALSE
    ELSE IF a = << >> THEN TRUE
    ELSE IF Head(a) = Head(b) THEN StrLess(Tail(a), Tail(b))
    ELSE CodeOf(Head(a)) < CodeOf(Head(b))

\* Object keys carry no order here, so of stableSortObject's work there
\* remain the sort of every "required" list and the new array it makes of
\* every other array.  The function Object is no plain object: it is returned
\* as it is, neither sorted nor copied.
RECURSIVE stableSortObject(_)
stableSortObject(node) ==
    IF IsObjectRef(node) THEN node
    ELSE [key \in DOMAIN node |->
            CASE key = "required" -> SortSeq(node[key], StrLess)
              [] key = "properties" -> [p \in DOMAIN node[key] |-> stableSortObject(node[key][p])]
              [] key = "items" -> stableSortObject(node[key])
              [] key = "enum" -> mapArray(node[key])
              [] OTHER -> node[key]]

\* s.split(delimiter) for a non-empty delimiter
RECURSIVE SplitStr(_, _)
SplitAt(s, delimiter, hits) ==
    IF hits = {} THEN <<s>>
    ELSE With(CHOOSE i \in hits : \A j \in hits : i <= j,
              LAMBDA first : <<SubSeq(s, 1, first - 1)>>
                                \o SplitStr(Drop(s, first - 1 + Len(delimiter)), delimiter))

SplitStr(s, delimiter) ==
    SplitAt(s, delimiter, {i \in 1..Len(s) : StartsWith(Drop(s, i - 1), delimiter)})

TrimAll(ss) == [i \in DOMAIN ss |-> Trim(ss[i])]

splitExamples(raw, delimiter) == NonEmpty(TrimAll(SplitStr(raw, delimiter)))

NoSemantic == [t |-> "semantic", description |-> Undefined, instruction |-> Undefined, examples |-> Undefined]

\* map.get(path) ?? {}
SemanticOf(map, path) == IF path \in DOMAIN map THEN map[path] ELSE NoSemantic

\* what one meta element adds to the map
metaEntry(tagName, name, content, map, delimiter) ==
    IF tagName # "meta" THEN map
    ELSE IF StartsWith(name, SEMANTIC_DESCRIPTION)
    THEN (Drop(name, Len(SEMANTIC_DESCRIPTION)) :>
            [SemanticOf(map, Drop(name, Len(SEMANTIC_DESCRIPTION))) EXCEPT !.description = Str(content)]) @@ map
    ELSE IF StartsWith(name, SEMANTIC_INSTRUCTION)
    THEN (Drop(name, Len(SEMANTIC_INSTRUCTION)) :>
            [SemanticOf(map, Drop(name, Len(SEMANTIC_INSTRUCTION))) EXCEPT !.instruction = Str(content)]) @@ map
    ELSE IF StartsWith(name, SEMANTIC_EXAMPLES)
    THEN (Drop(name, Len(SEMANTIC_EXAMPLES)) :>
            [SemanticOf(map, Drop(name, Len(SEMANTIC_EXAMPLES)))
                EXCEPT !.examples = Arr(splitExamples(content, delimiter))]) @@ map
    ELSE map

\* node.attributes[name] ?? ""
AttrOr(node, name) == IF Has(node.attributes, name) THEN node.attributes[name] ELSE << >>

\* the loop of collectMetaSemantics over its queue
RECURSIVE FoldMeta(_, _, _)
FoldMeta(queue, map, delimiter) ==
    IF queue = << >> THEN map
    ELSE FoldMeta(Tail(queue) \o SelectSeq(Head(queue).children, LAMBDA child : child.type = "element"),
                  metaEntry(Head(queue).tagName, AttrOr(Head(queue), "name"), AttrOr(Head(queue), "content"),
                            map, delimiter),
                  delimiter)

collectMetaSemantics(root, delimiter) == FoldMeta(<<root>>, << >>, delimiter)

\* inherited?.[field]
Inherited(inherited, field) == IF inherited.t = "undefined" THEN Undefined ELSE inherited[field]

inlineSemanticOf(description, instruction, examplesRaw, inherited, delimiter) ==
    IF ~Truthy(description) /\ ~Truthy(instruction) /\ ~Truthy(examplesRaw) THEN inherited
    ELSE [t |-> "semantic",
          description |-> Coalesce(description, Inherited(inherited, "description")),
          instruction |-> Coalesce(instruction, Inherited(inherited, "instruction")),
          examples |-> IF Truthy(examplesRaw) THEN Arr(splitExamples(examplesRaw.v, delimiter))
                       ELSE Inherited(inherited, "examples")]

buildInlineSemantic(node, inherited, delimiter) ==
    inlineSemanticOf(AttrValue(node, "data-semantic-description"),
                     AttrValue(node, "data-semantic-instruction"),
                     AttrValue(node, "data-semantic-examples"), inherited, delimiter)

----------------------------------------------------------------------------
(* walkNode as a state machine.  A frame of sstack is a call on an element  *)
(* whose children are being visited: pos is the element, ref the alias map  *)
(* of nextContext, inlineSemantic the semantic of nextContext, i the next   *)
(* child.  The bottom frame, "extractSchemaFromAst", has the root as its    *)
(* one child.                                                               *)

WalkFrame(fn, pos, ref, inlineSemantic) ==
    [fn |-> fn, pos |-> pos, ref |-> ref, inlineSemantic |-> inlineSemantic, i |-> 1]

WalkHasChild(stack) ==
    /\ stack # << >>
    /\ \/ Top(stack).fn = "extractSchemaFromAst" /\ Top(stack).i = 1
       \/ Top(stack).fn = "walkNode" /\ Top(stack).i <= Len(NodeAt(tree, Top(stack).pos).children)

WalkChildPos(stack) ==
    IF Top(stack).fn = "extractSchemaFromAst" THEN << >> ELSE Top(stack).pos \o <<Top(stack).i>>

examplesDelimiter == collectGlobalConfig(tree).examplesDelimiter

metaSemantics == collectMetaSemantics(tree, examplesDelimiter)

\* the record of one ensurePathNode call: who made it and with what
PathCall(origin, pos, path, leafSchema, required) ==
    [origin |-> origin, pos |-> pos, path |-> normalizePath(path), leafSchema |-> leafSchema,
     required |-> required]

\* extractSchemaFromAst(root): the empty schema and the empty alias map
ExtractStart ==
    /\ pc = "start"
    /\ pc' = "extract"
    /\ schema' = Set(EmptyObjectSchema, "$schema", "https://json-schema.org/draft/2020-12/schema")
    /\ heap' = Append(heap, << >>)
    /\ sstack' = <<WalkFrame("extractSchemaFromAst", << >>, Len(heap) + 1, Undefined)>>
    /\ calls' = << >>
    /\ UNCHANGED <<tree, data, verdict, rstack, out, reads, error, src, segs, given, Object, INTERPOLATION_RE, returned>>

\* metaSemantics.get(resolvedPath)
MetaOf(map, path) == IF path \in DOMAIN map THEN map[path] ELSE Undefined

\* the object getFieldSchema found, with both semantics applied
describeAt(root, steps, fromMeta, inlineSemantic) ==
    ReplaceAtSteps(root, steps,
        applySemantic(applySemantic(NodeAtSteps(root, steps), fromMeta), inlineSemantic))

\* the field schema, when getFieldSchema finds it, with both semantics applied
describeField(applied, fieldSchema, fromMeta, inlineSemantic) ==
    IF ~fieldSchema.found THEN applied
    ELSE IF fieldSchema.onObject
    THEN [applied EXCEPT !.Object = describeAt(applied.Object, fieldSchema.steps, fromMeta, inlineSemantic)]
    ELSE [applied EXCEPT !.node = describeAt(applied.node, fieldSchema.steps, fromMeta, inlineSemantic)]

walkDescribed(described, state, call) ==
    [schema |-> described.node, Object |-> described.Object, calls |-> Append(state.calls, call)]

\* one interpolation segment of walkNode's loop
walkSegment(segment, pos, resolvedPath, inlineSemantic, state) ==
    walkDescribed(
        With(applyInterpolationSchema(state.schema, state.Object, resolvedPath, segment),
             LAMBDA applied :
                describeField(applied, getFieldSchema(applied.node, applied.Object, resolvedPath),
                              MetaOf(metaSemantics, resolvedPath), inlineSemantic)),
        state,
        PathCall("interpolation", pos, resolvedPath,
                 buildFieldSchema(segment.dataType, segment.nullable, segment.constraints),
                 ~segment.nullable))

\* the loop of walkNode over the segments of a text node
RECURSIVE walkSegments(_, _, _, _, _)
walkSegments(segments, pos, aliases, inlineSemantic, state) ==
    IF segments = << >> THEN state
    ELSE IF Head(segments).kind # "interpolation"
    THEN walkSegments(Tail(segments), pos, aliases, inlineSemantic, state)
    ELSE walkSegments(Tail(segments), pos, aliases, inlineSemantic,
            walkSegment(Head(segments), pos, resolvePathWithAliases(Head(segments).path, aliases),
                        inlineSemantic, state))

\* walkNode on a text child
WalkText ==
    /\ pc = "extract" /\ WalkHasChild(sstack)
    /\ NodeAt(tree, WalkChildPos(sstack)).type = "text"
    /\ \E after \in {walkSegments(NodeAt(tree, WalkChildPos(sstack)).segments, WalkChildPos(sstack),
                                   heap[Top(sstack).ref], Top(sstack).inlineSemantic,
                                   [schema |-> schema, Object |-> Object, calls |-> calls])} :
           schema' = after.schema /\ Object' = after.Object /\ calls' = after.calls
    /\ sstack' = Advance(sstack)
    /\ UNCHANGED <<tree, data, pc, heap, verdict, rstack, out, reads, error, src, segs, given, INTERPOLATION_RE, returned>>

\* walkNode on a meta element: nothing
WalkMeta ==
    /\ pc = "extract" /\ WalkHasChild(sstack)
    /\ NodeAt(tree, WalkChildPos(sstack)).type = "element"
    /\ NodeAt(tree, WalkChildPos(sstack)).tagName = "meta"
    /\ sstack' = Advance(sstack)
    /\ UNCHANGED <<tree, data, pc, heap, schema, calls, verdict, rstack, out, reads, error, src, segs, given, Object, INTERPOLATION_RE, returned>>

\* the data-page or data-repeat block of walkNode: the array is declared and
\* the alias bound to its items in nextContext.aliases
boundTo(ensured, attr, pos, alias, path, state) ==
    [err |-> "none",
     schema |-> ensured.node,
     Object |-> ensured.Object,
     aliases |-> (alias :> (path \o ArraySuffix)) @@ state.aliases,
     calls |-> Append(state.calls, PathCall(attr, pos, path, EmptyArraySchema, TRUE))]

bindAlias(attr, pos, alias, path, state) ==
    boundTo(ensureArrayPath(state.schema, state.Object, path, TRUE), attr, pos, alias, path, state)

bindParsed(attr, pos, parsed, state) ==
    IF ~parsed.ok THEN [state EXCEPT !.err = "Invalid iteration expression"]
    ELSE bindAlias(attr, pos, parsed.alias, resolvePathWithAliases(parsed.path, state.aliases), state)

bindIteration(node, attr, pos, state) ==
    IF state.err # "none" \/ ~HasAttr(node, attr) THEN state
    ELSE bindParsed(attr, pos, parseIterationExpression(node.attributes[attr]), state)

\* the data-if block of walkNode
conditionInterpolation(conditionPath) ==
    [kind |-> "interpolation", path |-> conditionPath, dataType |-> "boolean",
     nullable |-> FALSE, constraints |-> << >>, filters |-> << >>]

declared(applied, pos, conditionPath, state) ==
    [state EXCEPT
        !.schema = applied.node,
        !.Object = applied.Object,
        !.calls = Append(state.calls,
                         PathCall("data-if", pos, conditionPath, buildFieldSchema("boolean", FALSE, << >>), TRUE))]

declarePath(pos, conditionPath, state) ==
    declared(applyInterpolationSchema(state.schema, state.Object, conditionPath,
                                      conditionInterpolation(conditionPath)),
             pos, conditionPath, state)

declareCondition(node, pos, state) ==
    IF state.err # "none" \/ ~HasAttr(node, "data-if") THEN state
    ELSE declarePath(pos, resolvePathWithAliases(node.attributes["data-if"], state.aliases), state)

\* walkNode on an element child, up to its loop over the children
WalkElement ==
    /\ pc = "extract" /\ WalkHasChild(sstack)
    /\ NodeAt(tree, WalkChildPos(sstack)).type = "element"
    /\ NodeAt(tree, WalkChildPos(sstack)).tagName # "meta"
    /\ \E pos \in {WalkChildPos(sstack)} :
       \E node \in {NodeAt(tree, pos)} :
       \E cloned \in {clonePathAliasMap(heap, Top(sstack).ref)} :
       \E inlineSemantic \in {buildInlineSemantic(node, Top(sstack).inlineSemantic, examplesDelimiter)} :
       \E start \in {[err |-> "none", schema |-> schema, Object |-> Object,
                       aliases |-> cloned.heap[cloned.ref], calls |-> calls]} :
       \E after \in {declareCondition(node, pos,
                        bindIteration(node, "data-repeat", pos,
                            bindIteration(node, "data-page", pos, start)))} :
           /\ heap' = [cloned.heap EXCEPT ![cloned.ref] = after.aliases]
           /\ schema' = after.schema
           /\ Object' = after.Object
           /\ calls' = after.calls
           /\ IF after.err = "none"
              THEN /\ sstack' = Append(Advance(sstack), WalkFrame("walkNode", pos, cloned.ref, inlineSemantic))
                   /\ UNCHANGED <<pc, error, verdict>>
              ELSE /\ sstack' = << >>
                   /\ error' = [error EXCEPT !.extract = after.err]
                   /\ pc' = "validated"
                   /\ verdict' = "none"
    /\ UNCHANGED <<tree, data, rstack, out, reads, src, segs, given, INTERPOLATION_RE, returned>>

\* walkNode returns: the children are done
WalkReturn ==
    /\ pc = "extract" /\ sstack # << >>
    /\ Top(sstack).fn = "walkNode" /\ ~WalkHasChild(sstack)
    /\ sstack' = Pop(sstack)
    /\ UNCHANGED <<tree, data, pc, heap, schema, calls, verdict, rstack, out, reads, error, src, segs, given, Object, INTERPOLATION_RE, returned>>

\* extractSchemaFromAst returns stableSortObject(schema)
ExtractReturn ==
    /\ pc = "extract" /\ sstack # << >>
    /\ Top(sstack).fn = "extractSchemaFromAst" /\ ~WalkHasChild(sstack)
    /\ schema' = stableSortObject(schema)
    /\ sstack' = << >>
    /\ pc' = "extracted"
    /\ UNCHANGED <<tree, data, heap, calls, verdict, rstack, out, reads, error, src, segs, given, Object, INTERPOLATION_RE, returned>>


----------------------------------------------------------------------------
(* validator.ts: the outcome of a validate function is "none" or the        *)
(* message of the error it throws, with the path the message names.         *)

Valid == [err |-> "none", path |-> << >>]

Invalid(message, path) == [err |-> message, path |-> path]

\* the first failure of a list of outcomes
RECURSIVE FirstError(_)
FirstError(outcomes) ==
    IF outcomes = << >> THEN Valid
    ELSE IF Head(outcomes).err # "none" THEN Head(outcomes)
    ELSE FirstError(Tail(outcomes))

\* Object.is(a, b) for a sch constant a
ObjectIs(a, b) == a.t = b.t /\ a.t \notin {"object", "array"} /\ a = b

\* a < b and a <= b on numbers
NumLess(a, b) == a.k # "NaN" /\ b.k # "NaN" /\ a.k # "Infinity" /\ (b.k = "Infinity" \/ a.v < b.v)

NumLessEq(a, b) == a.k # "NaN" /\ b.k # "NaN" /\ (b.k = "Infinity" \/ (a.k # "Infinity" /\ a.v <= b.v))

Abs(n) == IF n < 0 THEN -n ELSE n

\* a % b !== 0
RemainderNonZero(a, b) ==
    IF a.k \in {"NaN", "Infinity"} \/ b.k = "NaN" \/ (b.k # "Infinity" /\ b.v = 0) THEN TRUE
    ELSE IF b.k = "Infinity" THEN a.v # 0
    ELSE Abs(a.v) % Abs(b.v) # 0

\* new RegExp(pattern).test(value), for the patterns made of literal
\* characters with an optional leading ^ and trailing $
AnchoredStart(pattern) == pattern # << >> /\ Head(pattern) = "^"

AnchoredEnd(pattern) == pattern # << >> /\ pattern[Len(pattern)] = "$"

PatternBody(pattern) ==
    SubSeq(pattern, IF AnchoredStart(pattern) THEN 2 ELSE 1,
           IF AnchoredEnd(pattern) THEN Len(pattern) - 1 ELSE Len(pattern))

PatternTest(pattern, value) ==
    \E i \in 1..(Len(value) + 1) :
        /\ StartsWith(Drop(value, i - 1), PatternBody(pattern))
        /\ AnchoredStart(pattern) => i = 1
        /\ AnchoredEnd(pattern) => i - 1 + Len(PatternBody(pattern)) = Len(value)

\* /^\d{4}-\d{2}-\d{2}$/
IsDateFormat(s) == Len(s) = 10 /\ MatchesDate(s)

\* /^\d{2}:\d{2}(:\d{2})?$/
IsTimeFormat(s) ==
    /\ MatchesTime(s)
    /\ Len(s) = 5 \/ (Len(s) = 8 /\ s[6] = ":" /\ DigitsAt(s, 7, 2))

\* (?:Z|[+-]\d{2}:?\d{2})?$
IsOffsetOrEmpty(s) ==
    \/ s = << >> \/ s = <<"Z">>
    \/ Len(s) = 6 /\ s[1] \in {"+", "-"} /\ DigitsAt(s, 2, 2) /\ s[4] = ":" /\ DigitsAt(s, 5, 2)
    \/ Len(s) = 5 /\ s[1] \in {"+", "-"} /\ DigitsAt(s, 2, 4)

\* /^\d{4}-\d{2}-\d{2}T\d{2}:\d{2}(:\d{2})?(?:\.\d+)?(?:Z|[+-]\d{2}:?\d{2})?$/
AfterFraction(s) ==
    IF CharAt(s, 1, ".") /\ DigitPrefix(Tail(s)) # << >> THEN Drop(s, 1 + Len(DigitPrefix(Tail(s)))) ELSE s

AfterSeconds(s) == IF CharAt(s, 1, ":") /\ DigitsAt(s, 2, 2) THEN Drop(s, 3) ELSE s

IsDateTimeFormat(s) ==
    /\ MatchesDate(s) /\ CharAt(s, 11, "T") /\ MatchesTime(Drop(s, 11))
    /\ IsOffsetOrEmpty(AfterFraction(AfterSeconds(Drop(s, 16))))

validateStringFormat(value, format, path) ==
    IF \/ format = "date" /\ ~IsDateFormat(value)
       \/ format = "time" /\ ~IsTimeFormat(value)
       \/ format = "date-time" /\ ~IsDateTimeFormat(value)
    THEN Invalid("invalid format", path) ELSE Valid

\* typeof sch[key] === "number"
HasNumber(sch, key) == Has(sch, key) /\ sch[key].t = "number"

validateStringConstraints(value, sch, path) ==
    IF value.t # "string" THEN Valid
    ELSE IF HasNumber(sch, "minLength") /\ NumLess(Num(Len(value.v)), sch["minLength"])
    THEN Invalid("shorter than minLength", path)
    ELSE IF HasNumber(sch, "maxLength") /\ NumLess(sch["maxLength"], Num(Len(value.v)))
    THEN Invalid("longer than maxLength", path)
    ELSE IF Has(sch, "pattern") /\ sch["pattern"].t = "string" /\ ~PatternTest(sch["pattern"].v, value.v)
    THEN Invalid("pattern mismatch", path)
    ELSE Valid

validateNumberConstraints(value, sch, path) ==
    IF value.t # "number" THEN Valid
    ELSE IF HasNumber(sch, "minimum") /\ NumLess(value, sch["minimum"])
    THEN Invalid("smaller than minimum", path)
    ELSE IF HasNumber(sch, "maximum") /\ NumLess(sch["maximum"], value)
    THEN Invalid("larger than maximum", path)
    ELSE IF HasNumber(sch, "exclusiveMinimum") /\ NumLessEq(value, sch["exclusiveMinimum"])
    THEN Invalid("not greater than exclusiveMinimum", path)
    ELSE IF HasNumber(sch, "exclusiveMaximum") /\ NumLessEq(sch["exclusiveMaximum"], value)
    THEN Invalid("not less than exclusiveMaximum", path)
    ELSE IF HasNumber(sch, "multipleOf") /\ RemainderNonZero(value, sch["multipleOf"])
    THEN Invalid("not multipleOf", path)
    ELSE Valid

validateType(value, type, path) ==
    CASE type = "object" -> IF ~isPlainObject(value) THEN Invalid("expected object", path) ELSE Valid
      [] type = "array" -> IF ~IsArray(value) THEN Invalid("expected array", path) ELSE Valid
      [] type = "integer" -> IF ~IsFiniteNum(value) THEN Invalid("expected integer", path) ELSE Valid
      [] type = "number" ->
            IF value.t # "number" \/ value.k = "NaN" THEN Invalid("expected number", path) ELSE Valid
      [] type = "null" -> IF value.t # "null" THEN Invalid("expected null", path) ELSE Valid
      [] OTHER -> IF value.t # type THEN Invalid("expected " \o type, path) ELSE Valid

\* the keys of an object in the order Object.entries lists those of a sch
\* that stableSortObject has rebuilt: sorted
RECURSIVE SortedKeys(_)
SortedKeys(keys) ==
    IF keys = {} THEN << >>
    ELSE With(CHOOSE k \in keys : \A other \in keys \ {k} : StrLess(k, other),
              LAMBDA first : <<first>> \o SortedKeys(keys \ {first}))

\* the outcome of a check followed by the rest: a throw ends the function
AndThen(first, rest) == IF first.err # "none" THEN first ELSE rest

RECURSIVE validateValue(_, _, _)
RECURSIVE validateObject(_, _, _)
RECURSIVE validateArray(_, _, _)

\* schema.type as the list of its names
TypeOf(sch) == IF Has(sch, "type") THEN sch["type"] ELSE << >>

\* the first block of validateValue on a type that is not an array
checkType(value, type, path) ==
    IF Len(type) > 1
    THEN (IF SelectSeq(type, LAMBDA entry : entry # "null") # << >>
          THEN validateType(value, SelectSeq(type, LAMBDA entry : entry # "null")[1], path)
          ELSE Valid)
    ELSE IF Len(type) = 1 THEN validateType(value, type[1], path)
    ELSE Valid

checkValue(value, sch, path, type) ==
    IF Len(type) > 1 /\ value.t = "null" /\ "null" \in Range(type) THEN Valid
    ELSE AndThen(checkType(value, type, path),
         AndThen(IF Has(sch, "enum") /\ ~\E i \in DOMAIN sch["enum"].array : ObjectIs(sch["enum"].array[i], value)
                 THEN Invalid("value is not in enum", path) ELSE Valid,
         AndThen(IF Has(sch, "const") /\ ~ObjectIs(sch["const"], value)
                 THEN Invalid("value is not const", path) ELSE Valid,
         AndThen(IF "string" \in Range(type) THEN validateStringConstraints(value, sch, path) ELSE Valid,
         AndThen(IF "number" \in Range(type) \/ "integer" \in Range(type)
                 THEN validateNumberConstraints(value, sch, path) ELSE Valid,
         AndThen(IF Has(sch, "format") /\ value.t = "string"
                 THEN validateStringFormat(value.v, sch["format"], path) ELSE Valid,
         AndThen(IF "object" \in Range(type) THEN validateObject(value, sch, path) ELSE Valid,
                 IF "array" \in Range(type) THEN validateArray(value, sch, path) ELSE Valid)))))))

validateValue(value, sch, path) == checkValue(value, sch, path, TypeOf(sch))

\* the two loops of validateObject
checkProperties(value, properties, path, missing, present) ==
    IF missing # << >> THEN Invalid("required property missing", path \o <<".">> \o missing[1])
    ELSE FirstError([i \in DOMAIN present |->
                        validateValue(value.v[present[i]], properties[present[i]],
                                      path \o <<".">> \o present[i])])

checkObject(value, required, properties, path) ==
    checkProperties(value, properties, path,
        SelectSeq(required, LAMBDA key : key \notin DOMAIN value.v \/ value.v[key].t = "undefined"),
        SelectSeq(SortedKeys(DOMAIN properties), LAMBDA key : key \in DOMAIN value.v))

validateObject(value, sch, path) ==
    IF ~isPlainObject(value) THEN Valid
    ELSE checkObject(value,
                     IF Has(sch, "required") THEN sch["required"] ELSE << >>,
                     IF Has(sch, "properties") THEN sch["properties"] ELSE << >>,
                     path)

validateArray(value, sch, path) ==
    IF ~IsArray(value) \/ ~Has(sch, "items") THEN Valid
    ELSE FirstError([i \in DOMAIN value.v |->
                        validateValue(value.v[i], sch["items"],
                                      path \o <<"[">> \o NatToStr(i - 1) \o <<"]">>)])

validateData(root, rootSchema) == validateValue(root, rootSchema, <<"$","d","a","t","a">>)

\* validateData(data, schema) on the schema extractSchemaFromAst returned
Validate ==
    /\ pc = "extracted"
    /\ pc' = "validated"
    /\ \E outcome \in {validateData(data, schema)} :
          /\ verdict' = IF outcome.err = "none" THEN "accepted" ELSE "rejected"
          /\ error' = [error EXCEPT !.validate = outcome.err]
    /\ UNCHANGED <<tree, data, heap, sstack, schema, calls, rstack, out, reads, src, segs, given, Object, INTERPOLATION_RE, returned>>

----------------------------------------------------------------------------
(* expression-parser.ts.  A parse function returns [err |-> "none", ...] or  *)
(* the error it throws: its message, with the name and the data type the    *)
(* message quotes.                                                          *)

Failure(message, name, dataType) == [err |-> message, name |-> name, dataType |-> dataType]

\* the seven data types, as written in a template and as named in the model
VALID_TYPES ==
    (<<"s","t","r","i","n","g">> :> "string") @@ (<<"i","n","t","e","g","e","r">> :> "integer") @@ (<<"n","u","m","b","e","r">> :> "number")
    @@ (<<"b","o","o","l","e","a","n">> :> "boolean") @@ (<<"d","a","t","e">> :> "date") @@ (<<"t","i","m","e">> :> "time")
    @@ (<<"d","a","t","e","t","i","m","e">> :> "datetime")

Arity(min, max) == [min |-> min, max |-> max]

NumericFilters ==
    (<<"c","o","m","m","a">> :> Arity(0, 0)) @@ (<<"f","i","x","e","d">> :> Arity(1, 1)) @@ (<<"p","a","d","-","l","e","f","t">> :> Arity(1, 2))
    @@ (<<"e","i","t","h","e","r">> :> Arity(2, 2)) @@ (<<"d","e","f","a","u","l","t">> :> Arity(1, 1))

DateFilters == (<<"d","a","t","e","-","f","o","r","m","a","t">> :> Arity(1, 1)) @@ (<<"d","e","f","a","u","l","t">> :> Arity(1, 1))

FILTER_SPECS ==
    [string |-> (<<"u","p","p","e","r">> :> Arity(0, 0)) @@ (<<"l","o","w","e","r">> :> Arity(0, 0)) @@ (<<"r","e","p","l","a","c","e">> :> Arity(2, 2))
                @@ (<<"p","a","d","-","l","e","f","t">> :> Arity(1, 2)) @@ (<<"s","l","i","c","e">> :> Arity(2, 2)) @@ (<<"d","e","f","a","u","l","t">> :> Arity(1, 1))
                @@ (<<"z","e","n","k","a","k","u">> :> Arity(0, 0)) @@ (<<"h","a","n","k","a","k","u">> :> Arity(0, 0)),
     integer |-> NumericFilters,
     number |-> NumericFilters,
     boolean |-> (<<"e","i","t","h","e","r">> :> Arity(2, 2)) @@ (<<"d","e","f","a","u","l","t">> :> Arity(1, 1)),
     date |-> DateFilters,
     time |-> DateFilters,
     datetime |-> DateFilters]

IsQuote(ch) == ch \in {"\"", "'"}

\* s.indexOf(ch): 0-based, -1 when there is none
indexOf(s, ch) ==
    IF \A i \in DOMAIN s : s[i] # ch THEN -1
    ELSE (CHOOSE i \in DOMAIN s : s[i] = ch /\ \A j \in 1..(i - 1) : s[j] # ch) - 1

unquote(s) ==
    IF Len(s) >= 2 /\ IsQuote(s[1]) /\ s[Len(s)] = s[1] THEN SubSeq(s, 2, Len(s) - 1) ELSE s

\* the loop of quoteAwareSplit from the rest of the string on; inQuote is ""
\* for null
RECURSIVE splitLoop(_, _, _, _, _)
splitLoop(s, delimiter, current, inQuote, parts) ==
    IF s = << >> THEN (IF current # << >> \/ parts # << >> THEN Append(parts, current) ELSE parts)
    ELSE IF inQuote # ""
    THEN splitLoop(Tail(s), delimiter, Append(current, Head(s)),
                   IF Head(s) = inQuote THEN "" ELSE inQuote, parts)
    ELSE IF IsQuote(Head(s))
    THEN splitLoop(Tail(s), delimiter, Append(current, Head(s)), Head(s), parts)
    ELSE IF Head(s) = delimiter
    THEN splitLoop(Tail(s), delimiter, << >>, "", Append(parts, current))
    ELSE splitLoop(Tail(s), delimiter, Append(current, Head(s)), "", parts)

\* s.split(delimiter)
plainSplit(s, delimiter) == SplitChar(s, delimiter)

quoteAwareSplit(s, delimiter) == splitLoop(s, delimiter, << >>, "", << >>)

constraintNames ==
    <<<<"e","n","u","m">>, <<"m","i","n">>, <<"m","a","x">>, <<"e","x","M","i","n">>, <<"e","x","M","a","x">>, <<"s","t","e","p">>, <<"p","a","t","t","e","r","n">>, <<"f","i","x","e","d">>, <<"m","i","n","L","e","n","g","t","h">>, <<"m","a","x","L","e","n","g","t","h">>>>

\* s with its leading " " characters removed
RECURSIVE SkipBlanks(_)
SkipBlanks(s) == IF s # << >> /\ Head(s) = " " THEN SkipBlanks(Tail(s)) ELSE s

\* the loop of quoteAwareSplitConstraints from the rest of the string on
RECURSIVE splitConstraintsLoop(_, _, _, _)
splitConstraintsLoop(s, current, inQuote, entries) ==
    IF s = << >> THEN (IF Trim(current) # << >> THEN Append(entries, current) ELSE entries)
    ELSE IF inQuote # ""
    THEN splitConstraintsLoop(Tail(s), Append(current, Head(s)),
                              IF Head(s) = inQuote THEN "" ELSE inQuote, entries)
    ELSE IF IsQuote(Head(s))
    THEN splitConstraintsLoop(Tail(s), Append(current, Head(s)), Head(s), entries)
    ELSE IF Head(s) = ","
            /\ \E n \in DOMAIN constraintNames :
                    StartsWith(TrimStart(Tail(s)), constraintNames[n] \o <<":">>)
    THEN splitConstraintsLoop(SkipBlanks(Tail(s)), << >>, "", Append(entries, current))
    ELSE splitConstraintsLoop(Tail(s), Append(current, Head(s)), "", entries)

quoteAwareSplitConstraints(s) == splitConstraintsLoop(s, << >>, "", << >>)

\* the loop of findUnquotedChar at 1-based position i
RECURSIVE findLoop(_, _, _, _)
findLoop(s, ch, i, inQuote) ==
    IF i > Len(s) THEN -1
    ELSE IF inQuote # "" THEN findLoop(s, ch, i + 1, IF s[i] = inQuote THEN "" ELSE inQuote)
    ELSE IF IsQuote(s[i]) THEN findLoop(s, ch, i + 1, s[i])
    ELSE IF s[i] = ch THEN i - 1
    ELSE findLoop(s, ch, i + 1, "")

findUnquotedChar(s, ch) == findLoop(s, ch, 1, "")

\* the loop of findMatchingParen at 1-based position i
RECURSIVE parenLoop(_, _, _, _)
parenLoop(s, i, depth, inQuote) ==
    IF i > Len(s) THEN -1
    ELSE IF inQuote # "" THEN parenLoop(s, i + 1, depth, IF s[i] = inQuote THEN "" ELSE inQuote)
    ELSE IF IsQuote(s[i]) THEN parenLoop(s, i + 1, depth, s[i])
    ELSE IF s[i] = "(" THEN parenLoop(s, i + 1, depth + 1, "")
    ELSE IF s[i] = ")" THEN (IF depth - 1 = 0 THEN i - 1 ELSE parenLoop(s, i + 1, depth - 1, ""))
    ELSE parenLoop(s, i + 1, depth, "")

findMatchingParen(s, openIdx) == parenLoop(s, openIdx + 1, 0, "")

\* /^[A-Za-z_$][A-Za-z0-9_$]*$/
IsIdentifier(s) == s # << >> /\ IsIdStart(s[1]) /\ \A i \in DOMAIN s : IsIdChar(s[i])

\* PATH_RE.test(path)
PATH_RE(path) == \A part \in Range(SplitChar(path, ".")) : IsIdentifier(part)

parsePathType(s) ==
    With(indexOf(s, ":"), LAMBDA colonIdx :
    IF colonIdx < 0 THEN Failure("Type is required", << >>, "")
    ELSE
    With(Trim(SubSeq(s, 1, colonIdx)), LAMBDA path :
    With(Trim(Drop(s, colonIdx + 1)), LAMBDA rawType :
    With(EndsWith(rawType, <<"?">>), LAMBDA nullable :
    With(IF nullable THEN Trim(SubSeq(rawType, 1, Len(rawType) - 1)) ELSE rawType, LAMBDA typeStr :
        IF ~PATH_RE(path) THEN Failure("Invalid path", path, "")
        ELSE IF typeStr \notin DOMAIN VALID_TYPES THEN Failure("Invalid data type", typeStr, "")
        ELSE [err |-> "none", path |-> path, dataType |-> VALID_TYPES[typeStr], nullable |-> nullable])))))

\* parseFloat(s), for the numerals the inputs use: decimal integers
parseFloat(s) == parseInt(s)

\* one entry of parseEnumValues' map
enumValue(unquoted, dataType) ==
    CASE dataType = "integer" -> parseInt(unquoted)
      [] dataType = "number" -> parseFloat(unquoted)
      [] dataType = "boolean" -> Bool(unquoted = <<"t","r","u","e">>)
      [] OTHER -> Str(unquoted)

enumValues(parts, dataType) == [i \in DOMAIN parts |-> enumValue(unquote(Trim(parts[i])), dataType)]

parseEnumValues(rawValue, dataType) == enumValues(quoteAwareSplit(rawValue, ","), dataType)

fixedValue(unquoted, dataType) ==
    CASE dataType = "integer" -> [err |-> "none", v |-> parseInt(unquoted)]
      [] dataType = "number" -> [err |-> "none", v |-> parseFloat(unquoted)]
      [] dataType = "boolean" ->
            IF unquoted # <<"t","r","u","e">> /\ unquoted # <<"f","a","l","s","e">>
            THEN Failure("Invalid boolean literal", unquoted, dataType)
            ELSE [err |-> "none", v |-> Bool(unquoted = <<"t","r","u","e">>)]
      [] OTHER -> [err |-> "none", v |-> Str(unquoted)]

parseFixedValue(rawValue, dataType) == fixedValue(unquote(rawValue), dataType)

Built(kind, value) == [err |-> "none", constraint |-> [kind |-> kind, value |-> value]]

NotAllowed(name, dataType) == Failure("Constraint is not allowed for type", name, dataType)

IsNumeric(dataType) == dataType \in {"integer", "number"}

IsTemporal(dataType) == dataType \in {"date", "time", "datetime"}

\* buildConstraint's switch; numeric is Number(rawValue)
constraintCase(name, rawValue, dataType, numeric) ==
    CASE name = <<"e","n","u","m">> ->
            IF dataType = "boolean" \/ IsTemporal(dataType) THEN NotAllowed(name, dataType)
            ELSE [err |-> "none",
                  constraint |-> [kind |-> "enum", values |-> parseEnumValues(rawValue, dataType)]]
      [] name = <<"m","i","n">> ->
            IF dataType = "string" THEN Built("minLength", numeric)
            ELSE IF IsNumeric(dataType) THEN Built("min", numeric)
            ELSE NotAllowed(name, dataType)
      [] name = <<"m","a","x">> ->
            IF dataType = "string" THEN Built("maxLength", numeric)
            ELSE IF IsNumeric(dataType) THEN Built("max", numeric)
            ELSE NotAllowed(name, dataType)
      [] name = <<"e","x","M","i","n">> ->
            IF ~IsNumeric(dataType) THEN NotAllowed(name, dataType) ELSE Built("exMin", numeric)
      [] name = <<"e","x","M","a","x">> ->
            IF ~IsNumeric(dataType) THEN NotAllowed(name, dataType) ELSE Built("exMax", numeric)
      [] name = <<"s","t","e","p">> ->
            IF ~IsNumeric(dataType) THEN NotAllowed(name, dataType) ELSE Built("step", numeric)
      [] name = <<"p","a","t","t","e","r","n">> ->
            IF dataType # "string" THEN NotAllowed(name, dataType) ELSE Built("pattern", Str(unquote(rawValue)))
      [] name = <<"f","i","x","e","d">> ->
            IF IsTemporal(dataType) THEN NotAllowed(name, dataType)
            ELSE With(parseFixedValue(rawValue, dataType),
                      LAMBDA fixed : IF fixed.err # "none" THEN fixed ELSE Built("fixed", fixed.v))
      [] OTHER -> Failure("Unknown constraint", name, dataType)

buildConstraint(name, rawValue, dataType) == constraintCase(name, rawValue, dataType, StrToNumber(rawValue))

\* the loop of parseConstraints over the entries
RECURSIVE constraintsLoop(_, _, _)
constraintEntry(trimmed, colonIdx, entries, dataType, constraints) ==
    IF trimmed = << >> THEN constraintsLoop(Tail(entries), dataType, constraints)
    ELSE IF colonIdx < 0 THEN constraintsLoop(Tail(entries), dataType, constraints)
    ELSE With(buildConstraint(Trim(SubSeq(trimmed, 1, colonIdx)), Trim(Drop(trimmed, colonIdx + 1)), dataType),
              LAMBDA built :
                IF built.err # "none" THEN built
                ELSE constraintsLoop(Tail(entries), dataType, Append(constraints, built.constraint)))

constraintsLoop(entries, dataType, constraints) ==
    IF entries = << >> THEN [err |-> "none", constraints |-> constraints]
    ELSE constraintEntry(Trim(Head(entries)), indexOf(Trim(Head(entries)), ":"), entries, dataType, constraints)

parseConstraints(str, dataType) == constraintsLoop(quoteAwareSplitConstraints(str), dataType, << >>)

unquoteAll(split) == [i \in DOMAIN split |-> unquote(Trim(split[i]))]

\* parseFilter once the name and the arguments are split
checkFilter(name, args, specs, dataType) ==
    IF name \notin DOMAIN specs THEN Failure("Filter is not allowed for type", name, dataType)
    ELSE IF Len(args) < specs[name].min \/ Len(args) > specs[name].max
    THEN Failure("Filter expects args", name, dataType)
    ELSE [err |-> "none", filter |-> [name |-> name, args |-> args]]

filterArgs(argsStr) == IF argsStr = << >> THEN << >> ELSE unquoteAll(quoteAwareSplit(argsStr, ","))

splitFilter(s, colonIdx, dataType) ==
    checkFilter(IF colonIdx < 0 THEN Trim(s) ELSE Trim(SubSeq(s, 1, colonIdx)),
                filterArgs(IF colonIdx < 0 THEN << >> ELSE Trim(Drop(s, colonIdx + 1))),
                FILTER_SPECS[dataType], dataType)

\* the name and the arguments as split, not looked up in FILTER_SPECS
parseFilterUnchecked(s, dataType) ==
    [err |-> "none",
     filter |-> [name |-> IF indexOf(s, ":") < 0 THEN Trim(s) ELSE Trim(SubSeq(s, 1, indexOf(s, ":"))),
                 args |-> filterArgs(IF indexOf(s, ":") < 0 THEN << >> ELSE Trim(Drop(s, indexOf(s, ":") + 1)))]]

parseFilter(s, dataType) == splitFilter(s, indexOf(s, ":"), dataType)

\* filterParts.map(parseFilter): the first throw ends the map
RECURSIVE filtersLoop(_, _, _)
filtersLoop(filterParts, dataType, filters) ==
    IF filterParts = << >> THEN [err |-> "none", filters |-> filters]
    ELSE With(parseFilter(Trim(Head(filterParts)), dataType),
              LAMBDA parsed :
                IF parsed.err # "none" THEN parsed
                ELSE filtersLoop(Tail(filterParts), dataType, Append(filters, parsed.filter)))

\* steps 3 to 5 of parseInterpolation
parseParts(pathType, constraintsStr, filterParts) ==
    IF pathType.err # "none" THEN pathType
    ELSE
    With(IF constraintsStr # << >> THEN parseConstraints(constraintsStr, pathType.dataType)
         ELSE [err |-> "none", constraints |-> << >>], LAMBDA constraints :
    IF constraints.err # "none" THEN constraints
    ELSE
    With(filtersLoop(filterParts, pathType.dataType, << >>), LAMBDA filters :
    IF filters.err # "none" THEN filters
    ELSE [err |-> "none",
          segment |-> [kind |-> "interpolation", path |-> pathType.path,
                       dataType |-> pathType.dataType, nullable |-> pathType.nullable,
                       constraints |-> constraints.constraints, filters |-> filters.filters]]))

\* step 2 of parseInterpolation when the main part has a "("
parseWithParens(mainPart, parenOpen, matchedParenClose, filterParts) ==
    IF matchedParenClose < 0 THEN Failure("Unclosed constraint parentheses", << >>, "")
    ELSE IF Trim(Drop(mainPart, matchedParenClose + 1)) # << >>
    THEN Failure("Unmatched constraint parentheses", << >>, "")
    ELSE parseParts(parsePathType(Trim(SubSeq(mainPart, 1, parenOpen))),
                    Trim(SubSeq(mainPart, parenOpen + 2, matchedParenClose)), filterParts)

parseMain(mainPart, parenOpen, filterParts) ==
    IF parenOpen >= 0
    THEN parseWithParens(mainPart, parenOpen, findMatchingParen(mainPart, parenOpen), filterParts)
    ELSE IF findUnquotedChar(mainPart, ")") >= 0
    THEN Failure("Unmatched constraint parentheses", << >>, "")
    ELSE parseParts(parsePathType(mainPart), << >>, filterParts)

splitInterpolation(parts) ==
    IF parts = << >> THEN Failure("TypeError", << >>, "")
    ELSE With(Trim(parts[1]),
              LAMBDA mainPart : parseMain(mainPart, findUnquotedChar(mainPart, "("), Tail(parts)))

parseInterpolation(inner) == splitInterpolation(quoteAwareSplit(inner, "|"))

literal(value) == [kind |-> "literal", value |-> value]

\* the 1-based positions at which s has the two characters pair
PairsAt(s, pair) == {i \in 1..(Len(s) - 1) : s[i] = pair[1] /\ s[i + 1] = pair[2]}

\* the positions of the "}}" that can close a "{{" at i
ClosesAfter(text, i) == {j \in PairsAt(text, <<"}","}">>) : j >= i + 2}

Least(set) == CHOOSE i \in set : \A j \in set : i <= j

\* The loop of parseTextSegments over the matches of /\{\{(.*?)\}\}/g in the
\* text.  exec searches from the cursor re of the regular expression (0-based)
\* and leaves it behind the match, or at 0 when there is no match; the
\* function's own lastIndex is where the next literal starts.  A throw of
\* parseInterpolation leaves the cursor behind the match it was given.
RECURSIVE segmentsLoop(_, _, _, _)
segmentMatch(text, lastIndex, segments, open, close) ==
    With(parseInterpolation(Trim(SubSeq(text, open + 2, close - 1))),
         LAMBDA parsed :
            IF parsed.err # "none" THEN [result |-> parsed, re |-> close + 1]
            ELSE segmentsLoop(text, close + 1, close + 1,
                    (segments \o (IF open - 1 > lastIndex
                                  THEN <<literal(SubSeq(text, lastIndex + 1, open - 1))>> ELSE << >>))
                        \o <<parsed.segment>>))

segmentsFrom(text, lastIndex, segments, opens) ==
    IF opens = {}
    THEN [result |-> [err |-> "none",
                      segments |-> IF lastIndex < Len(text)
                                   THEN Append(segments, literal(Drop(text, lastIndex)))
                                   ELSE segments],
          re |-> 0]
    ELSE With(Least(opens),
              LAMBDA open : segmentMatch(text, lastIndex, segments, open, Least(ClosesAfter(text, open))))

segmentsLoop(text, re, lastIndex, segments) ==
    segmentsFrom(text, lastIndex, segments,
                 {i \in PairsAt(text, <<"{","{">>) : i > re /\ ClosesAfter(text, i) # {}})

\* INTERPOLATION_RE.lastIndex = 0
resetLastIndex(re) == 0

\* parseTextSegments(text) when the cursor of INTERPOLATION_RE is at re: what
\* it returns or throws, and where it leaves the cursor
parseTextSegmentsAt(text, re) ==
    IF text = << >> THEN [result |-> [err |-> "none", segments |-> << >>], re |-> re]
    ELSE segmentsLoop(text, resetLastIndex(re), 0, << >>)

\* parseTextSegments(text) in a module that has just been loaded
parseTextSegments(text) == parseTextSegmentsAt(text, 0).result

----------------------------------------------------------------------------
(* parseTextSegments and applyFilters as calls of their own *)

\* the values a parsed filter chain is applied to
ApplyValues ==
    <<Undefined, Null, Str(<< >>), Str(<<"a","b">>), Str(<<"2","0","2","4","-","0","1","-","0","2">>), Num(0), Num(1234), NaN, Bool(TRUE)>>

\* parseTextSegments(src)
ParseText ==
    /\ pc = "parse"
    /\ pc' = "parsed"
    /\ \E parsed \in {parseTextSegmentsAt(src, INTERPOLATION_RE)} :
          /\ segs' = parsed.result
          /\ error' = [error EXCEPT !.parse = parsed.result.err]
          /\ INTERPOLATION_RE' = parsed.re
    /\ UNCHANGED <<tree, data, heap, sstack, schema, calls, verdict, rstack, out, reads, src, given, Object, returned>>

\* applyFilters(value, segment.filters, {dataType}) on every interpolation the
\* parser returned, for one value
ApplyParsed ==
    /\ pc = "parsed" /\ error.parse = "none"
    /\ \E v \in DOMAIN ApplyValues :
          out' = [i \in DOMAIN segs.segments |->
                    IF segs.segments[i].kind = "literal" THEN Returned(Str(segs.segments[i].value))
                    ELSE applyFilters(ApplyValues[v], segs.segments[i].filters,
                                      [dataType |-> segs.segments[i].dataType, timezone |-> <<"U","T","C">>])]
    /\ pc' = "done"
    /\ UNCHANGED <<tree, data, heap, sstack, schema, calls, verdict, rstack, reads, error, src, segs, given, Object, INTERPOLATION_RE, returned>>

----------------------------------------------------------------------------
(* The inputs: trees as parseHtml builds them, with the data they are given *)

MaxItems == 2

MaxRows == 3

MaxChain == 2

\* an ElementNode (types.ts)
ElementNode(tagName, attributes, children) ==
    [type |-> "element", tagName |-> tagName, attributes |-> attributes, children |-> children]

\* buildTextNode(raw) of html-parser.ts, for a raw text the parser accepts
buildTextNode(raw) == [type |-> "text", segments |-> parseTextSegments(raw).segments]

\* one attribute, or none when the value is empty
Attr(name, value) == IF value = << >> THEN << >> ELSE (name :> value)

\* a row-count attribute: absent for -1, the numeral of the count otherwise
RowAttr(name, count) == IF count < 0 THEN << >> ELSE (name :> NatToStr(count))

Html(children) == ElementNode("html", << >>, children)

Input(family, params, root, object) ==
    [tree |-> root, data |-> object, given |-> [family |-> family, params |-> params]]

\* n copies of an item
Copies(n, item) == [i \in 1..n |-> item]

\* a repeated row with every combination of data-max-rows, data-fixed-rows
\* and list length; item i has the name "a" i and the quantity 5, and the
\* root data has a key of the alias's name
RowInputs ==
    {Input("rows", [attr |-> attr, max |-> max, fixed |-> fixed, n |-> n],
           Html(<<ElementNode("tr",
                    (attr :> <<"r","o","w","s"," ","a","s"," ","r">>) @@ RowAttr("data-max-rows", max)
                        @@ RowAttr("data-fixed-rows", fixed),
                    <<buildTextNode(<<"{","{"," ","r",".","n",":","s","t","r","i","n","g"," ","}","}","-","{","{"," ","r",".","q",":","i","n","t","e","g","e","r","?"," ","|"," ","c","o","m","m","a"," ","}","}">>)>>)>>),
           Obj((<<"r">> :> Obj(<<"n">> :> Str(<<"r","o","o","t">>)))
               @@ (<<"r","o","w","s">> :>
                     Arr([i \in 1..n |-> Obj((<<"n">> :> Str(<<"a", DigitChars[i]>>)) @@ (<<"q">> :> Num(5)))])))) :
        attr \in {"data-repeat", "data-page"}, max \in -1..MaxRows, fixed \in -1..MaxRows,
        n \in 0..MaxItems}

\* row-count attributes that are no plain numerals, and a source that is no array
OddRowInputs ==
    {Input("oddrows", [max |-> max, fixed |-> fixed, n |-> 2],
           Html(<<ElementNode("tr",
                    ("data-repeat" :> <<"r","o","w","s"," ","a","s"," ","r">>) @@ Attr("data-max-rows", max)
                        @@ Attr("data-fixed-rows", fixed),
                    <<buildTextNode(<<"{","{"," ","r",".","n",":","s","t","r","i","n","g"," ","}","}">>)>>)>>),
           Obj(<<"r","o","w","s">> :> Arr(Copies(2, Obj(<<"n">> :> Str(<<"a">>)))))) :
        max \in {<< >>, <<"x">>, <<"-","1">>, <<"1","p","x">>}, fixed \in {<< >>, <<"x">>, <<"-","1">>, <<" ","2">>}}
    \cup {Input("oddrows", [max |-> <<>>, fixed |-> <<"2">>, n |-> 0],
                Html(<<ElementNode("tr", ("data-repeat" :> <<"r","o","w","s"," ","a","s"," ","r">>) @@ ("data-fixed-rows" :> <<"2">>),
                                   <<buildTextNode(<<"{","{"," ","r",".","n",":","s","t","r","i","n","g"," ","}","}">>)>>)>>),
                Obj(<<"r","o","w","s">> :> Str(<<"a","b">>)))}

\* declarations of one path, alone and in pairs, under a data-if or not
Declarations ==
    <<<<"{","{"," ","x",":","s","t","r","i","n","g"," ","}","}">>, <<"{","{"," ","x",":","s","t","r","i","n","g","?"," ","}","}">>, <<"{","{"," ","x",":","b","o","o","l","e","a","n"," ","}","}">>, <<"{","{"," ","x",":","i","n","t","e","g","e","r","?"," ","|"," ","c","o","m","m","a"," ","}","}">>,
      <<"{","{"," ","x",".","y",":","s","t","r","i","n","g"," ","}","}">>, <<"{","{"," ","z",":","d","a","t","e"," ","}","}">>>>

DeclaredData ==
    {Obj((<<"c">> :> Bool(TRUE)) @@ (<<"z">> :> Str(<<"2","0","2","4","-","0","1","-","0","2">>)) @@ x) :
        x \in {<< >>, <<"x">> :> Null, <<"x">> :> Str(<<"a">>), <<"x">> :> Bool(TRUE), <<"x">> :> Bool(FALSE),
               <<"x">> :> Obj(<<"y">> :> Str(<<"b">>))}}

DeclaredInputs ==
    {Input("declared", [first |-> first, second |-> second, cond |-> cond],
           Html(<<ElementNode("p", Attr("data-if", cond),
                    <<buildTextNode(Declarations[first]
                                    \o (IF second = 0 THEN << >> ELSE Declarations[second]))>>)>>),
           object) :
        first \in DOMAIN Declarations, second \in {0} \cup DOMAIN Declarations,
        cond \in {<< >>, <<"x">>, <<"c">>}, object \in DeclaredData}

\* nested iterations: a page of contracts with repeated items, and a repeat
\* whose alias an inner repeat binds again; a sibling uses the name unbound
NestedTree ==
    Html(<<ElementNode("meta", ("name" :> <<"s","e","m","a","n","t","i","c","-","d","e","s","c","r","i","p","t","i","o","n",":","c","o","n","t","r","a","c","t","s","[","]",".","i","t","e","m","s","[","]",".","n","a","m","e">>)
                                @@ ("content" :> <<"t","h","e"," ","n","a","m","e">>), << >>),
           ElementNode("div", ("data-page" :> <<"c","o","n","t","r","a","c","t","s"," ","a","s"," ","c">>),
                <<ElementNode("p", ("data-repeat" :> <<"c",".","i","t","e","m","s"," ","a","s"," ","i">>),
                              <<buildTextNode(<<"{","{"," ","i",".","n","a","m","e",":","s","t","r","i","n","g"," ","}","}">>)>>),
                  ElementNode("span", << >>, <<buildTextNode(<<"{","{"," ","c",".","t","i","t","l","e",":","s","t","r","i","n","g","?"," ","}","}">>)>>)>>),
           ElementNode("p", << >>, <<buildTextNode(<<"{","{"," ","c",":","s","t","r","i","n","g","?"," ","}","}">>)>>)>>)

ShadowTree ==
    Html(<<ElementNode("div", ("data-repeat" :> <<"a"," ","a","s"," ","x">>),
                <<ElementNode("p", ("data-repeat" :> <<"x",".","b"," ","a","s"," ","x">>),
                              <<buildTextNode(<<"{","{"," ","x",".","v",":","s","t","r","i","n","g"," ","}","}">>)>>),
                  ElementNode("span", << >>, <<buildTextNode(<<"{","{"," ","x",".","w",":","s","t","r","i","n","g"," ","}","}">>)>>)>>),
           ElementNode("p", << >>, <<buildTextNode(<<"{","{"," ","x",":","s","t","r","i","n","g","?"," ","}","}">>)>>)>>)

NestedInputs ==
    {Input("nested", [outer |-> outer, inner |-> inner], NestedTree,
           Obj((<<"c">> :> Str(<<"r","o","o","t">>))
               @@ (<<"c","o","n","t","r","a","c","t","s">> :>
                     Arr(Copies(outer, Obj((<<"t","i","t","l","e">> :> Str(<<"t">>))
                                           @@ (<<"i","t","e","m","s">> :> Arr(Copies(inner, Obj(<<"n","a","m","e">> :> Str(<<"n">>)))))))))))
        : outer \in 0..MaxItems, inner \in 0..MaxItems}
    \cup
    {Input("shadow", [outer |-> outer, inner |-> inner], ShadowTree,
           Obj((<<"x">> :> Str(<<"r","o","o","t">>))
               @@ (<<"a">> :>
                     Arr(Copies(outer, Obj((<<"w">> :> Str(<<"o","u","t","e","r">>))
                                           @@ (<<"b">> :> Arr(Copies(inner, Obj(<<"v">> :> Str(<<"i","n","n","e","r">>)))))))))))
        : outer \in 0..MaxItems, inner \in 0..MaxItems}

\* the implicit companions: a page over `pages` items reads $index and $page
\* at its own level and one element deeper, and a repeat inside it over the
\* page's `cells` items reads them again
CompanionTree ==
    Html(<<ElementNode("section", ("data-page" :> <<"p","a","g","e","s"," ","a","s"," ","p">>),
                <<buildTextNode(<<"{","{"," ","$","i","n","d","e","x",":","i","n","t","e","g","e","r"," ","}","}","/","{","{"," ","$","p","a","g","e",".","i","n","d","e","x",":","i","n","t","e","g","e","r"," ","}","}","/","{","{"," ","$","p","a","g","e",".","n","u","m","b","e","r",":","i","n","t","e","g","e","r"," ","}","}","/","{","{"," ","$","p","a","g","e",".","c","o","u","n","t",":","i","n","t","e","g","e","r"," ","}","}">>),
                  ElementNode("div", << >>, <<buildTextNode(<<"{","{"," ","$","p","a","g","e",".","n","u","m","b","e","r",":","i","n","t","e","g","e","r"," ","}","}">>)>>),
                  ElementNode("span", ("data-repeat" :> <<"p",".","c","e","l","l","s"," ","a","s"," ","c">>),
                              <<buildTextNode(<<"{","{"," ","$","i","n","d","e","x",":","i","n","t","e","g","e","r"," ","}","}","/","{","{"," ","$","p","a","g","e",".","i","n","d","e","x",":","i","n","t","e","g","e","r"," ","}","}","/","{","{"," ","$","p","a","g","e",".","n","u","m","b","e","r",":","i","n","t","e","g","e","r"," ","}","}","/","{","{"," ","$","p","a","g","e",".","c","o","u","n","t",":","i","n","t","e","g","e","r"," ","}","}">>)>>)>>)>>)

CompanionInputs ==
    {Input("companions", [pages |-> pages, cells |-> cells], CompanionTree,
           Obj(<<"p","a","g","e","s">> :> Arr(Copies(pages, Obj(<<"c","e","l","l","s">> :> Arr(Copies(cells, EmptyObj)))))))
        : pages \in 0..MaxItems, cells \in 0..MaxItems}

\* the three semantic fields: the prefix of the head-level meta name, the
\* inline attribute and the schema keyword
SemanticFields ==
    <<[meta |-> SEMANTIC_DESCRIPTION, attr |-> "data-semantic-description", keyword |-> "description"],
      [meta |-> SEMANTIC_INSTRUCTION, attr |-> "data-semantic-instruction", keyword |-> "x-instruction"],
      [meta |-> SEMANTIC_EXAMPLES, attr |-> "data-semantic-examples", keyword |-> "examples"]>>

\* a field x with a head-level meta value and an inline value, and the same
\* path interpolated again outside the inline attribute, before or after it
SemanticInputs ==
    {Input("semantic", [field |-> field, again |-> again],
           Html(<<ElementNode("meta", ("name" :> SemanticFields[field].meta \o <<"x">>) @@ ("content" :> <<"m","e","t","a">>), << >>)>>
                \o (IF again = "before" THEN <<ElementNode("i", << >>, <<buildTextNode(<<"{","{"," ","x",":","s","t","r","i","n","g"," ","}","}">>)>>)>> ELSE << >>)
                \o <<ElementNode("p", (SemanticFields[field].attr :> <<"i","n","l","i","n","e">>), <<buildTextNode(<<"{","{"," ","x",":","s","t","r","i","n","g"," ","}","}">>)>>)>>
                \o (IF again = "after" THEN <<ElementNode("b", << >>, <<buildTextNode(<<"{","{"," ","x",":","s","t","r","i","n","g"," ","}","}">>)>>)>> ELSE << >>)),
           Obj(<<"x">> :> Str(<<"v">>)))
        : field \in DOMAIN SemanticFields, again \in {"never", "before", "after"}}

\* the values a data-if path is resolved to
ConditionValues ==
    <<Undefined, Null, Bool(FALSE), Bool(TRUE), Num(0), NegZero, NaN, Num(1), Infinity,
      Str(<< >>), Str(<<"a">>), Str(<<"0">>), Arr(<< >>), EmptyObj>>

\* the object with key bound to value, or without the key for undefined
Holding(key, value) == IF value.t = "undefined" THEN << >> ELSE (key :> value)

ConditionInputs ==
    {Input("condition", [shape |-> "root", value |-> v],
           Html(<<ElementNode("p", ("data-if" :> <<"c">>) @@ ("class" :> <<"k">>), <<buildTextNode(<<"T">>)>>),
                  ElementNode("br", << >>, << >>)>>),
           Obj(Holding(<<"c">>, ConditionValues[v]))) : v \in DOMAIN ConditionValues}
    \cup
    {Input("condition", [shape |-> "member", value |-> v],
           Html(<<ElementNode("p", ("data-if" :> <<"o",".","c">>), <<buildTextNode(<<"T">>)>>)>>),
           Obj(<<"o">> :> Obj(Holding(<<"c">>, ConditionValues[v])))) : v \in DOMAIN ConditionValues}
    \cup
    {Input("condition", [shape |-> "item", value |-> v],
           Html(<<ElementNode("tr", ("data-repeat" :> <<"r","o","w","s"," ","a","s"," ","r">>) @@ ("data-if" :> <<"r",".","o","k">>),
                              <<buildTextNode(<<"T">>)>>)>>),
           Obj(<<"r","o","w","s">> :> Arr(<<Obj(Holding(<<"o","k">>, ConditionValues[v]))>>))) : v \in DOMAIN ConditionValues}

\* filter specifications, as written after the bar
FilterSources ==
    <<<<"u","p","p","e","r">>, <<"r","e","p","l","a","c","e",":","a",",","b">>, <<"p","a","d","-","l","e","f","t",":","3">>, <<"s","l","i","c","e",":","0",",","2">>, <<"z","e","n","k","a","k","u">>, <<"c","o","m","m","a">>, <<"f","i","x","e","d",":","2">>,
      <<"f","i","x","e","d",":","1","0","1">>, <<"e","i","t","h","e","r",":","Y",",","N">>, <<"d","a","t","e","-","f","o","r","m","a","t",":","Y","Y","Y","Y">>, <<"d","e","f","a","u","l","t",":","z">>>>

TypeSources == <<<<"s","t","r","i","n","g">>, <<"i","n","t","e","g","e","r">>, <<"n","u","m","b","e","r">>, <<"b","o","o","l","e","a","n">>, <<"d","a","t","e">>, <<"t","i","m","e">>, <<"d","a","t","e","t","i","m","e">>>>

\* the sequences over 1..n of length 1..len
RECURSIVE Chains(_, _)
Chains(n, len) ==
    IF len = 0 THEN {<< >>}
    ELSE {<< >>} \cup {<<first>> \o rest : first \in 1..n, rest \in Chains(n, len - 1)}

\* {{ a:type? | filter | filter }}
ChainSource(type, chain) ==
    <<"{","{"," ","a",":">> \o TypeSources[type] \o <<"?">>
        \o Concat([i \in DOMAIN chain |-> <<" ","|"," ">> \o FilterSources[chain[i]]]) \o <<" ","}","}">>

\* a nullable interpolation of every type with every filter chain the parser
\* accepts, on data where the path is null or absent
AcceptedChains ==
    {tc \in (DOMAIN TypeSources) \X Chains(Len(FilterSources), MaxChain) :
        parseTextSegments(ChainSource(tc[1], tc[2])).err = "none"}

AbsentInputs ==
    {Input("absent", [type |-> tc[1], chain |-> tc[2], value |-> value],
           Html(<<ElementNode("p", << >>, <<buildTextNode(ChainSource(tc[1], tc[2]))>>)>>),
           Obj(Holding(<<"a">>, value))) :
        tc \in AcceptedChains, value \in {Undefined, Null}}

\* the filter default:z
DefaultFilter == IndexOf(FilterSources, <<"d","e","f","a","u","l","t",":","z">>)

\* a nullable interpolation of every type with the filter default:z, alone or
\* before another filter, on data where the path is 0, false or ""
DefaultedInputs ==
    {Input("defaulted", [type |-> tc[1], chain |-> tc[2], value |-> value],
           Html(<<ElementNode("p", << >>, <<buildTextNode(ChainSource(tc[1], tc[2]))>>)>>),
           Obj(Holding(<<"a">>, value))) :
        tc \in {c \in AcceptedChains : c[2] = <<DefaultFilter>>},
        value \in {Num(0), Bool(FALSE), Str(<< >>)}}

\* the items a list is validated with: a valid one, null for the nullable
\* enumerated key, the nullable key absent, the required key missing, too
\* short, outside the enum, of the wrong type, undefined, and no object
CheckedItems ==
    <<Obj((<<"n">> :> Str(<<"x">>)) @@ (<<"k">> :> Str(<<"a">>))),
      Obj((<<"n">> :> Str(<<"x">>)) @@ (<<"k">> :> Null)),
      Obj(<<"n">> :> Str(<<"x">>)),
      Obj(<<"k">> :> Str(<<"a">>)),
      Obj((<<"n">> :> Str(<< >>)) @@ (<<"k">> :> Str(<<"a">>))),
      Obj((<<"n">> :> Str(<<"x">>)) @@ (<<"k">> :> Str(<<"c">>))),
      Obj((<<"n">> :> Num(5)) @@ (<<"k">> :> Str(<<"a">>))),
      Obj((<<"n">> :> Undefined) @@ (<<"k">> :> Str(<<"a">>))),
      Str(<<"s">>)>>

\* a repeated row with a required string of at least one character and a
\* nullable string out of an enum, and lists of up to MaxItems items
CheckedInputs ==
    {Input("checked", [items |-> items],
           Html(<<ElementNode("tr", ("data-repeat" :> <<"r","o","w","s"," ","a","s"," ","r">>),
                    <<buildTextNode(<<"{","{"," ","r",".","n",":","s","t","r","i","n","g"," ","(","m","i","n",":","1",")"," ","}","}","{","{"," ","r",".","k",":","s","t","r","i","n","g","?"," ","(","e","n","u","m",":","a",",","b",")"," ","}","}">>)>>)>>),
           Obj(<<"r","o","w","s">> :> Arr([i \in DOMAIN items |-> CheckedItems[items[i]]])))
        : items \in Chains(Len(CheckedItems), MaxItems)}

\* the keys interpolated below the path "constructor", in the order of the text
InheritedOrders == <<<<<<"a">>>>, <<<<"b">>>>, <<<<"b">>, <<"a">>>>>>

\* {{ constructor.key:string }} for each key, the first with (enum:x,y) or not
InheritedSource(keys, enum) ==
    Concat([i \in DOMAIN keys |->
                <<"{","{"," ","c","o","n","s","t","r","u","c","t","o","r",".">> \o keys[i] \o <<":","s","t","r","i","n","g">>
                    \o (IF enum /\ i = 1 THEN <<" ","(","e","n","u","m",":","x",",","y",")">> ELSE << >>) \o <<" ","}","}">>])

\* texts whose path goes through a name every object inherits, on data that
\* has the object of its own or not
InheritedInputs ==
    {Input("inherited", [keys |-> keys, enum |-> enum, own |-> own],
           Html(<<ElementNode("p", << >>, <<buildTextNode(InheritedSource(InheritedOrders[keys], enum))>>)>>),
           Obj(IF own THEN <<"c","o","n","s","t","r","u","c","t","o","r">> :> Obj((<<"a">> :> Str(<<"x">>)) @@ (<<"b">> :> Str(<<"y">>))) ELSE << >>))
        : keys \in DOMAIN InheritedOrders, enum \in BOOLEAN, own \in BOOLEAN}

\* the values an escaped text is rendered with, and the filters it has
EscapedValues == <<Undefined, Str(<<"<","i",">">>), Str(<<"a","&">> \o <<"\"">> \o <<"b">>), Str(<<"&","l","t",";">>), Num(5), Arr(<<Str(<<"<">>), Str(<<">">>)>>)>>

EscapedFilters == <<<< >>, <<" ","|"," ","u","p","p","e","r">>, <<" ","|"," ","r","e","p","l","a","c","e",":","a",",","&">>, <<" ","|"," ","d","e","f","a","u","l","t",":",">">>, <<" ","|"," ","r","e","p","l","a","c","e",":","&",",","a"," ","|"," ","u","p","p","e","r">>>>

EscapedLiteral == <<"R","&","D"," ",">"," ">> \o <<"\"">> \o <<"x">> \o <<"\"">> \o <<" ">>

\* a literal with the characters escapeHtml replaces, and an interpolation
\* whose value has them or whose filters put them in
EscapedInputs ==
    {Input("escaped", [value |-> value, filter |-> filter],
           Html(<<ElementNode("p", << >>,
                    <<buildTextNode(EscapedLiteral \o <<"{","{"," ","v",":","s","t","r","i","n","g","?">> \o EscapedFilters[filter] \o <<" ","}","}">>)>>)>>),
           Obj(Holding(<<"v">>, EscapedValues[value])))
        : value \in DOMAIN EscapedValues, filter \in DOMAIN EscapedFilters}

\* two sibling rows, each repeating a source and reading one key of its
\* items: the same source twice, or two sources
SiblingInputs ==
    {Input("siblings", [attr |-> attr, same |-> same],
           Html(<<ElementNode("tr", (attr :> <<"r","o","w","s"," ","a","s"," ","r">>), <<buildTextNode(<<"{","{"," ","r",".","a",":","s","t","r","i","n","g"," ","}","}">>)>>),
                  ElementNode("tr", ("data-repeat" :> (IF same THEN <<"r","o","w","s"," ","a","s"," ","q">> ELSE <<"m","o","r","e"," ","a","s"," ","q">>)),
                              <<buildTextNode(<<"{","{"," ","q",".","b",":","s","t","r","i","n","g"," ","}","}">>)>>)>>),
           Obj((<<"r","o","w","s">> :> Arr(<<Obj((<<"a">> :> Str(<<"x">>)) @@ (<<"b">> :> Str(<<"y">>)))>>))
               @@ (<<"m","o","r","e">> :> Arr(<<Obj(<<"b">> :> Str(<<"z">>))>>))))
        : attr \in {"data-repeat", "data-page"}, same \in BOOLEAN}

\* declarations of the path r.x with constraints, in pairs, each in an element
\* of its own: two paragraphs, r being a key of the data, or two rows
\* repeating the same source as r
MergedDeclarations ==
    <<<<"{","{"," ","r",".","x",":","n","u","m","b","e","r"," ","(","m","i","n",":","1",")"," ","}","}">>, <<"{","{"," ","r",".","x",":","n","u","m","b","e","r"," ","(","m","a","x",":","5",")"," ","}","}">>, <<"{","{"," ","r",".","x",":","n","u","m","b","e","r"," ","(","m","i","n",":","3",","," ","s","t","e","p",":","2",")"," ","}","}">>,
      <<"{","{"," ","r",".","x",":","s","t","r","i","n","g"," ","(","e","n","u","m",":","a",",","b",")"," ","}","}">>, <<"{","{"," ","r",".","x",":","d","a","t","e"," ","}","}">>, <<"{","{"," ","r",".","x",":","n","u","m","b","e","r","?"," ","}","}">>>>

MergedElement(rows, text) ==
    IF rows THEN ElementNode("tr", ("data-repeat" :> <<"r","o","w","s"," ","a","s"," ","r">>), <<buildTextNode(text)>>)
    ELSE ElementNode("p", << >>, <<buildTextNode(text)>>)

MergedInputs ==
    {Input("merged", [first |-> first, second |-> second, rows |-> rows],
           Html(<<MergedElement(rows, MergedDeclarations[first]),
                  MergedElement(rows, MergedDeclarations[second])>>),
           Obj((<<"r">> :> Obj(<<"x">> :> Num(3))) @@ (<<"r","o","w","s">> :> Arr(<<Obj(<<"x">> :> Num(3))>>))))
        : first \in DOMAIN MergedDeclarations, second \in DOMAIN MergedDeclarations, rows \in BOOLEAN}

\* one interpolation of a path of up to three parts, nullable or not
DeepPaths == <<<<"a">>, <<"a",".","b">>, <<"a",".","b",".","c">>>>

DeepInputs ==
    {Input("deep", [parts |-> parts, nullable |-> nullable],
           Html(<<ElementNode("p", << >>,
                    <<buildTextNode(<<"{","{"," ">> \o DeepPaths[parts] \o <<":","s","t","r","i","n","g">>
                                    \o (IF nullable THEN <<"?">> ELSE << >>) \o <<" ","}","}">>)>>)>>),
           object)
        : parts \in DOMAIN DeepPaths, nullable \in BOOLEAN,
          object \in {EmptyObj, Obj(<<"a">> :> Obj(<<"b">> :> Obj(<<"c">> :> Str(<<"v">>)))), Obj(<<"a">> :> Str(<<"v">>))}}

\* one element with data-page and data-repeat, the source of data-repeat
\* going through the alias of data-page; each page has three items, and the
\* data has the key i at its root or not
BothInputs ==
    {Input("both", [pages |-> pages, root |-> root],
           Html(<<ElementNode("div", ("data-page" :> <<"p","a","g","e","s"," ","a","s"," ","p">>) @@ ("data-repeat" :> <<"p",".","i","t","e","m","s"," ","a","s"," ","i">>),
                    <<buildTextNode(<<"{","{"," ","p",".","t",":","s","t","r","i","n","g"," ","}","}","{","{"," ","i",".","n",":","s","t","r","i","n","g","?"," ","}","}">>)>>)>>),
           Obj((<<"p","a","g","e","s">> :> Arr(Copies(pages, Obj((<<"t">> :> Str(<<"T">>))
                                                   @@ (<<"i","t","e","m","s">> :> Arr(Copies(3, Obj(<<"n">> :> Str(<<"N">>)))))))))
               @@ (IF root THEN <<"i">> :> Obj(<<"n">> :> Str(<<"R">>)) ELSE << >>)))
        : pages \in 0..MaxItems, root \in BOOLEAN}

\* an iteration expression without "as alias", over one item, with a text
\* that reads the item through the name the attribute is documented to bind
\* (item for data-repeat, page for data-page)
InvalidInputs ==
    {Input("invalid", [attr |-> attr],
           Html(<<ElementNode("div", (attr :> <<"r","o","w","s">>),
                    <<buildTextNode(<<"{","{"," ">> \o (IF attr = "data-repeat" THEN <<"i","t","e","m">> ELSE <<"p","a","g","e">>)
                                        \o <<".","n",":","s","t","r","i","n","g"," ","}","}">>)>>)>>),
           Obj(<<"r","o","w","s">> :> Arr(<<Obj(<<"n">> :> Str(<<"a","1">>))>>))) : attr \in {"data-repeat", "data-page"}}

\* the trees whose every text parses
Inputs ==
    RowInputs \cup OddRowInputs \cup DeclaredInputs \cup NestedInputs \cup ConditionInputs
    \cup InvalidInputs \cup AbsentInputs \cup CompanionInputs \cup SemanticInputs \cup CheckedInputs
    \cup InheritedInputs \cup EscapedInputs \cup SiblingInputs \cup MergedInputs \cup DeepInputs
    \cup DefaultedInputs \cup BothInputs

NoError == [extract |-> "none", validate |-> "none", render |-> "none", parse |-> "none"]

Init ==
    /\ \E input \in Inputs : tree = input.tree /\ data = input.data /\ given = input.given
    /\ pc = "start"
    /\ heap = << >> /\ sstack = << >> /\ schema = << >> /\ calls = << >>
    /\ verdict = "none" /\ rstack = << >> /\ out = << >> /\ reads = << >>
    /\ error = NoError /\ src = << >> /\ segs = << >>
    /\ Object = << >> /\ INTERPOLATION_RE = 0 /\ returned = << >>

Next ==
    \/ ExtractStart \/ WalkText \/ WalkMeta \/ WalkElement \/ WalkReturn \/ ExtractReturn
    \/ Validate
    \/ RenderStart \/ RenderText \/ RenderPlain \/ RenderIterated
    \/ RenderInstance \/ RenderIterationEnd \/ RenderClose \/ RenderReturn

Spec == Init /\ [][Next]_vars

----------------------------------------------------------------------------
(* The texts given to parseTextSegments on its own: one interpolation with a *)
(* filter chain or with a constraint list                                    *)

MaxArgs == 3

\* the twelve filters of applySingleFilter and two names it does not know
FilterNames ==
    <<<<"d","e","f","a","u","l","t">>, <<"u","p","p","e","r">>, <<"l","o","w","e","r">>, <<"r","e","p","l","a","c","e">>, <<"p","a","d","-","l","e","f","t">>, <<"s","l","i","c","e">>, <<"z","e","n","k","a","k","u">>, <<"h","a","n","k","a","k","u">>,
      <<"c","o","m","m","a">>, <<"f","i","x","e","d">>, <<"e","i","t","h","e","r">>, <<"d","a","t","e","-","f","o","r","m","a","t">>, <<"t","r","i","m">>, <<"b","o","g","u","s">>>>

\* name, name:1, name:1,2 ...
FilterSource(name, argc) ==
    FilterNames[name]
        \o (IF argc = 0 THEN << >> ELSE <<":">> \o Join([i \in 1..argc |-> <<DigitChars[i + 1]>>], <<",">>))

\* {{ a:type | filter | filter }}
FilterText(type, chain) ==
    <<"{","{"," ","a",":">> \o TypeSources[type]
        \o Concat([i \in DOMAIN chain |-> <<" ","|"," ">> \o FilterSource(chain[i].name, chain[i].argc)]) \o <<" ","}","}">>

FilterChoices == [name : DOMAIN FilterNames, argc : 0..MaxArgs]

\* one filter, or default:1 (registered for every type) followed by one filter
FilterTexts ==
    {[src |-> FilterText(type, chain),
      given |-> [family |-> "filter", params |-> [type |-> type, chain |-> chain]]] :
        type \in DOMAIN TypeSources,
        chain \in {<<f>> : f \in FilterChoices} \cup {<<[name |-> 1, argc |-> 1], f>> : f \in FilterChoices}}

\* the entries of a constraint list, as written between the parentheses
ConstraintEntries ==
    <<<<"m","i","n",":","1">>, <<"m","a","x",":","5">>, <<"e","x","M","i","n",":","0">>, <<"e","x","M","a","x",":","9">>, <<"s","t","e","p",":","2">>, <<"p","a","t","t","e","r","n",":","a">>, <<"e","n","u","m",":","a",",","b">>, <<"f","i","x","e","d",":","1">>,
      <<"m","i","n","L","e","n","g","t","h",":","1">>, <<"b","o","g","u","s",":","1">>, <<"f","o","o">>>>

\* {{ a:type (entry, entry) }}
ConstraintText(type, entries) ==
    <<"{","{"," ","a",":">> \o TypeSources[type] \o <<" ","(">>
        \o Join([i \in DOMAIN entries |-> ConstraintEntries[entries[i]]], <<","," ">>) \o <<")"," ","}","}">>

ConstraintTexts ==
    {[src |-> ConstraintText(type, entries),
      given |-> [family |-> "constraints", params |-> [type |-> type, entries |-> entries]]] :
        type \in DOMAIN TypeSources,
        entries \in {<<e>> : e \in DOMAIN ConstraintEntries}
                    \cup {<<e, f>> : e \in DOMAIN ConstraintEntries, f \in DOMAIN ConstraintEntries}}

Apostrophe == <<"'">>

\* interpolations with '|', '(', ')' and ',' between quotes of both kinds
QuotedSources ==
    <<<<"{","{"," ","a",":","s","t","r","i","n","g"," ","|"," ","r","e","p","l","a","c","e",":","\"","x","|","y","\"",",">> \o Apostrophe \o <<"(">> \o Apostrophe \o <<" ","|"," ","u","p","p","e","r"," ","}","}">>,
      <<"{","{"," ","a",":","s","t","r","i","n","g"," ","(","e","n","u","m",":","\"","p",",","q","\"",",">> \o Apostrophe \o <<"r",")">> \o Apostrophe \o <<","," ","m","a","x",":","3",")"," ","|"," ","d","e","f","a","u","l","t",":","\"","(",",",")","\""," ","}","}">>,
      <<"{","{"," ","a",":","s","t","r","i","n","g"," ","(","p","a","t","t","e","r","n",":","\"","(","a","|","b",")","\"",")"," ","|"," ","d","e","f","a","u","l","t",":","\"","\"","x","\"","\""," ","}","}">>,
      <<"{","{"," ","a",":","s","t","r","i","n","g"," ","|"," ","d","e","f","a","u","l","t",":">> \o Apostrophe \o <<"\"">> \o Apostrophe \o <<" ","|"," ","r","e","p","l","a","c","e",":","\"">> \o Apostrophe \o <<"\"",",","z"," ","}","}">>,
      <<"{","{"," ","a",":","s","t","r","i","n","g"," ","(","f","i","x","e","d",":">> \o Apostrophe \o <<"|">> \o Apostrophe \o <<")"," ","}","}">>,
      <<"{","{"," ","a",":","s","t","r","i","n","g"," ","(","e","n","u","m",":","\"","a",","," ","m","a","x",":","1","\"",",","b",","," ","m","i","n",":","2",")"," ","}","}">>>>

QuotedTexts ==
    {[src |-> QuotedSources[text], given |-> [family |-> "quoted", params |-> [text |-> text]]] :
        text \in DOMAIN QuotedSources}

InitParse ==
    /\ \E text \in FilterTexts \cup ConstraintTexts \cup QuotedTexts : src = text.src /\ given = text.given
    /\ pc = "parse"
    /\ tree = << >> /\ data = << >>
    /\ heap = << >> /\ sstack = << >> /\ schema = << >> /\ calls = << >>
    /\ verdict = "none" /\ rstack = << >> /\ out = << >> /\ reads = << >>
    /\ error = NoError /\ segs = << >>
    /\ Object = << >> /\ INTERPOLATION_RE = 0 /\ returned = << >>

NextParse == ParseText \/ ApplyParsed

SpecParse == InitParse /\ [][NextParse]_vars

----------------------------------------------------------------------------
(* Several calls, one after the other, in one realm: what a call leaves in   *)
(* the module (the cursor of INTERPOLATION_RE) and in the realm (the         *)
(* function Object) is there for the next call.                              *)

MaxCalls == 3

\* paragraphs declaring b, a as a number, and a as a nullable string
OrderedElements ==
    <<ElementNode("p", << >>, <<buildTextNode(<<"{","{"," ","b",":","s","t","r","i","n","g"," ","}","}">>)>>),
      ElementNode("p", << >>, <<buildTextNode(<<"{","{"," ","a",":","n","u","m","b","e","r"," ","(","m","i","n",":","1",")"," ","}","}">>)>>),
      ElementNode("p", << >>, <<buildTextNode(<<"{","{"," ","a",":","s","t","r","i","n","g","?"," ","}","}">>)>>)>>

\* two of the paragraphs as the children of the root, in both orders: two
\* paths, and one path declared twice
OrderedInputs ==
    {Input("ordered", [order |-> order],
           Html([i \in DOMAIN order |-> OrderedElements[order[i]]]),
           Obj((<<"a">> :> Num(3)) @@ (<<"b">> :> Str(<<"v">>))))
        : order \in {<<1, 2>>, <<2, 1>>, <<2, 3>>, <<3, 2>>}}

\* the trees and data the calls are made with
CallInputs ==
    InheritedInputs \cup OrderedInputs
    \cup {input \in SemanticInputs : input.given.params.again = "before"}
    \cup {input \in CheckedInputs : input.given.params.items \in {<<1>>, <<2>>, <<6>>}}
    \cup {input \in DeclaredInputs :
            /\ input.given.params = [first |-> 6, second |-> 1, cond |-> << >>]
            /\ (<<"x">> \in DOMAIN input.data.v => input.data.v[<<"x">>].t = "string")}

\* the texts parseTextSegments is called with: one that parses, one whose
\* second interpolation makes parseInterpolation throw, and the empty text
CallTexts == {<<"{","{"," ","a",":","s","t","r","i","n","g"," ","}","}">>, <<"x"," ","{","{"," ","a",":","s","t","r","i","n","g"," ","}","}"," ","{","{"," ","b",":","b","o","g","u","s"," ","}","}"," ","t","a","i","l">>, << >>}

\* what a schema is to its caller: the function Object, where the schema
\* refers to it, is the one object of the realm with what is on it now
RECURSIVE Resolved(_, _)
Resolved(node, ctor) ==
    IF IsObjectRef(node) THEN ctor
    ELSE [key \in DOMAIN node |->
            CASE key = "properties" -> [p \in DOMAIN node[key] |-> Resolved(node[key][p], ctor)]
              [] key = "items" -> Resolved(node[key], ctor)
              [] OTHER -> node[key]]

\* extractSchemaFromAst(tree), validateData(data, schema) and
\* renderAst(tree, data) are called on a tree a caller holds
CallPipeline ==
    /\ pc = "idle" /\ Len(returned) < MaxCalls
    /\ \E input \in CallInputs : tree' = input.tree /\ data' = input.data /\ given' = input.given
    /\ pc' = "start"
    /\ sstack' = << >> /\ schema' = << >> /\ calls' = << >>
    /\ verdict' = "none" /\ rstack' = << >> /\ out' = << >> /\ reads' = << >>
    /\ error' = NoError
    /\ UNCHANGED <<heap, src, segs, Object, INTERPOLATION_RE, returned>>

\* the calls have returned or thrown: the caller has their results
Return ==
    /\ pc = "done"
    /\ pc' = "idle"
    /\ returned' = Append(returned,
                          [fn |-> "extractSchemaFromAst", args |-> [tree |-> tree, data |-> data],
                           result |-> [schema |-> Resolved(schema, Object), verdict |-> verdict,
                                       out |-> out, error |-> error]])
    /\ UNCHANGED <<tree, data, heap, sstack, schema, calls, verdict, rstack, out, reads, error, src, segs, given,
                   Object, INTERPOLATION_RE>>

\* parseTextSegments(text) is called
CallParseTextSegments ==
    /\ pc = "idle" /\ Len(returned) < MaxCalls
    /\ \E text \in CallTexts :
       \E parsed \in {parseTextSegmentsAt(text, INTERPOLATION_RE)} :
          /\ src' = text
          /\ segs' = parsed.result
          /\ INTERPOLATION_RE' = parsed.re
          /\ returned' = Append(returned, [fn |-> "parseTextSegments", args |-> [text |-> text],
                                           result |-> parsed.result])
    /\ UNCHANGED <<tree, data, pc, heap, sstack, schema, calls, verdict, rstack, out, reads, error, given, Object>>

InitCalls ==
    /\ pc = "idle"
    /\ tree = << >> /\ data = << >> /\ given = [family |-> "none", params |-> << >>]
    /\ heap = << >> /\ sstack = << >> /\ schema = << >> /\ calls = << >>
    /\ verdict = "none" /\ rstack = << >> /\ out = << >> /\ reads = << >>
    /\ error = NoError /\ src = << >> /\ segs = << >>
    /\ Object = << >> /\ INTERPOLATION_RE = 0 /\ returned = << >>

NextCalls == CallPipeline \/ CallParseTextSegments \/ Return \/ Next

SpecCalls == InitCalls /\ [][NextCalls]_vars

----------------------------------------------------------------------------
(* html-parser.ts: parseHtml.  The html is the sequence of the tokens
   TOKEN_RE cuts it into, each as parseOpenTag or parseClosingTag read it:
   [k |-> "comment"], [k |-> "close", tagName], [k |-> "open", tagName,
   attrs, selfClosing] and [k |-> "text", raw]. *)

ALLOWED_TAGS ==
    {"html", "head", "body", "meta", "div", "section", "header", "footer", "main", "p", "span", "strong",
     "em", "small", "br", "hr", "table", "thead", "tbody", "tr", "th", "td", "colgroup", "ul", "ol", "li", "img"}

VOID_TAGS == {"br", "hr", "img", "meta"}

ALLOWED_ATTRIBUTES ==
    {"style", "class", "id", "lang", "dir", "src", "alt", "colspan", "rowspan", "name", "content"}

ALLOWED_DATA_ATTRIBUTES ==
    {"data-page", "data-repeat", "data-if", "data-format", "data-break-before", "data-break-after",
     "data-fixed-rows", "data-max-rows", "data-semantic-description", "data-semantic-instruction",
     "data-semantic-examples"}

ALLOWED_CSS_PROPERTIES ==
    {<<"d","i","s","p","l","a","y">>, <<"w","i","d","t","h">>, <<"h","e","i","g","h","t">>, <<"m","a","r","g","i","n">>, <<"m","a","r","g","i","n","-","t","o","p">>, <<"m","a","r","g","i","n","-","r","i","g","h","t">>, <<"m","a","r","g","i","n","-","b","o","t","t","o","m">>,
     <<"m","a","r","g","i","n","-","l","e","f","t">>, <<"p","a","d","d","i","n","g">>, <<"p","a","d","d","i","n","g","-","t","o","p">>, <<"p","a","d","d","i","n","g","-","r","i","g","h","t">>, <<"p","a","d","d","i","n","g","-","b","o","t","t","o","m">>, <<"p","a","d","d","i","n","g","-","l","e","f","t">>,
     <<"b","o","x","-","s","i","z","i","n","g">>, <<"b","o","r","d","e","r">>, <<"b","o","r","d","e","r","-","c","o","l","l","a","p","s","e">>, <<"f","o","n","t","-","f","a","m","i","l","y">>, <<"f","o","n","t","-","s","i","z","e">>, <<"f","o","n","t","-","w","e","i","g","h","t">>,
     <<"l","i","n","e","-","h","e","i","g","h","t">>, <<"t","e","x","t","-","a","l","i","g","n">>, <<"w","h","i","t","e","-","s","p","a","c","e">>, <<"l","e","t","t","e","r","-","s","p","a","c","i","n","g">>, <<"c","o","l","o","r">>, <<"b","a","c","k","g","r","o","u","n","d","-","c","o","l","o","r">>,
     <<"p","a","g","e","-","b","r","e","a","k","-","b","e","f","o","r","e">>, <<"p","a","g","e","-","b","r","e","a","k","-","a","f","t","e","r">>, <<"p","a","g","e","-","b","r","e","a","k","-","i","n","s","i","d","e">>}

\* \w
IsWordChar(c) == IsLetter(c) \/ IsDigit(c) \/ c = "_"

\* /\bword\b/.test(value), for a word of word characters
HasWord(value, word) ==
    \E i \in 1..(Len(value) - Len(word) + 1) :
        /\ SubSeq(value, i, i + Len(word) - 1) = word
        /\ i = 1 \/ ~IsWordChar(value[i - 1])
        /\ i + Len(word) > Len(value) \/ ~IsWordChar(value[i + Len(word)])

\* /name\s*\(/.test(value)
HasCall(value, name) ==
    \E i \in 1..(Len(value) - Len(name) + 1) :
        /\ SubSeq(value, i, i + Len(name) - 1) = name
        /\ StartsWith(TrimStart(Drop(value, i + Len(name) - 1)), <<"(">>)

\* /^\s*(em|rem|vh|vw|%|ch)(?![A-Za-z])/.test(rest)
StartsUnit(rest) ==
    \E unit \in {<<"e","m">>, <<"r","e","m">>, <<"v","h">>, <<"v","w">>, <<"%">>, <<"c","h">>} :
        /\ StartsWith(TrimStart(rest), unit)
        /\ Len(TrimStart(rest)) = Len(unit) \/ ~IsLetter(TrimStart(rest)[Len(unit) + 1])

\* /\d(?:\.\d+)?\s*(em|rem|vh|vw|%|ch)(?![A-Za-z])/.test(value)
HasRelativeLength(value) ==
    \E i \in DOMAIN value :
        /\ IsDigit(value[i])
        /\ \/ StartsUnit(Drop(value, i))
           \/ \E n \in 1..(Len(value) - i - 1) :
                 /\ value[i + 1] = "."
                 /\ \A d \in 1..n : IsDigit(value[i + 1 + d])
                 /\ StartsUnit(Drop(value, i + 1 + n))

\* BANNED_CSS_PATTERNS.some((pattern) => pattern.test(value)); the patterns
\* ignore case
BANNED_CSS_PATTERNS(value) ==
    \/ \E word \in {<<"a","b","s","o","l","u","t","e">>, <<"f","i","x","e","d">>, <<"f","l","o","a","t">>, <<"f","l","e","x">>, <<"g","r","i","d">>, <<"a","n","i","m","a","t","i","o","n">>, <<"t","r","a","n","s","i","t","i","o","n">>,
                     <<"t","r","a","n","s","f","o","r","m">>, <<"f","i","l","t","e","r">>} : HasWord(toLowerCase(value), word)
    \/ HasCall(toLowerCase(value), <<"c","a","l","c">>) \/ HasCall(toLowerCase(value), <<"v","a","r">>)
    \/ HasRelativeLength(toLowerCase(value))

\* the loop of sanitizeStyle over the declarations
RECURSIVE keptDeclarations(_)
keptDeclarations(declarations) ==
    IF declarations = << >> THEN << >>
    ELSE With(Trim(Head(declarations)), LAMBDA declaration :
         With(indexOf(declaration, ":"), LAMBDA colonIdx :
            IF declaration = << >> \/ colonIdx < 0 THEN keptDeclarations(Tail(declarations))
            ELSE With(toLowerCase(Trim(SubSeq(declaration, 1, colonIdx))), LAMBDA property :
                 With(Trim(Drop(declaration, colonIdx + 1)), LAMBDA value :
                    IF property \notin ALLOWED_CSS_PROPERTIES \/ BANNED_CSS_PATTERNS(value)
                    THEN keptDeclarations(Tail(declarations))
                    ELSE <<property \o <<":">> \o value>> \o keptDeclarations(Tail(declarations))))))

sanitizeStyle(style) == Join(keptDeclarations(SplitChar(style, ";")), <<";"," ">>)

filterAttributes(attrs) ==
    [key \in {name \in DOMAIN attrs :
                /\ name \in ALLOWED_ATTRIBUTES \cup ALLOWED_DATA_ATTRIBUTES
                /\ name = "style" => sanitizeStyle(attrs[name]) # << >>}
        |-> IF key = "style" THEN sanitizeStyle(attrs[key]) ELSE attrs[key]]

\* the element on top of the stack is complete: it is the last child of the
\* one below, where it was pushed when it was opened
RECURSIVE truncate(_, _)
truncate(stack, length) ==
    IF Len(stack) <= length THEN stack
    ELSE truncate([SubSeq(stack, 1, Len(stack) - 1) EXCEPT
                      ![Len(stack) - 1].children = Append(@, stack[Len(stack)])],
                  length)

\* closeStackUntil(stack, tagName): stack.length = i for the topmost open
\* element of that name, the synthetic root apart
closeStackUntil(stack, tagName) ==
    IF \E i \in 2..Len(stack) : stack[i].tagName = tagName
    THEN truncate(stack, (CHOOSE i \in 2..Len(stack) :
                            /\ stack[i].tagName = tagName
                            /\ \A j \in (i + 1)..Len(stack) : stack[j].tagName # tagName) - 1)
    ELSE stack

\* stack[stack.length - 1].children.push(node)
pushChild(stack, node) == [stack EXCEPT ![Len(stack)].children = Append(@, node)]

\* what parseHtml returns from the children of the synthetic root
rootOf(syntheticRoot) ==
    IF \E i \in DOMAIN syntheticRoot.children :
          syntheticRoot.children[i].type = "element" /\ syntheticRoot.children[i].tagName = "html"
    THEN syntheticRoot.children[Least({i \in DOMAIN syntheticRoot.children :
                                          /\ syntheticRoot.children[i].type = "element"
                                          /\ syntheticRoot.children[i].tagName = "html"})]
    ELSE ElementNode("html", << >>, syntheticRoot.children)

\* the loop of parseHtml over the tokens
RECURSIVE parseTokens(_, _, _)
openToken(token, isVoid, tokens, stack, ignoredDepth) ==
    IF ignoredDepth > 0
    THEN parseTokens(Tail(tokens), stack, IF isVoid THEN ignoredDepth ELSE ignoredDepth + 1)
    ELSE IF token.tagName \notin ALLOWED_TAGS
    THEN parseTokens(Tail(tokens), stack, IF isVoid THEN 0 ELSE 1)
    ELSE IF token.tagName = "img"
            /\ ~("src" \in DOMAIN filterAttributes(token.attrs)
                  /\ StartsWith(filterAttributes(token.attrs)["src"], <<"d","a","t","a",":">>))
    THEN parseTokens(Tail(tokens), stack, ignoredDepth)
    ELSE IF isVoid
    THEN parseTokens(Tail(tokens),
                     pushChild(stack, ElementNode(token.tagName, filterAttributes(token.attrs), << >>)),
                     ignoredDepth)
    ELSE parseTokens(Tail(tokens),
                     Append(stack, ElementNode(token.tagName, filterAttributes(token.attrs), << >>)),
                     ignoredDepth)

textToken(token, tokens, stack, ignoredDepth) ==
    IF ignoredDepth > 0 \/ Trim(token.raw) = << >> THEN parseTokens(Tail(tokens), stack, ignoredDepth)
    ELSE IF parseTextSegments(token.raw).err # "none"
    THEN [err |-> parseTextSegments(token.raw).err, tree |-> << >>]
    ELSE IF parseTextSegments(token.raw).segments = << >> THEN parseTokens(Tail(tokens), stack, ignoredDepth)
    ELSE parseTokens(Tail(tokens), pushChild(stack, buildTextNode(token.raw)), ignoredDepth)

parseTokens(tokens, stack, ignoredDepth) ==
    IF tokens = << >> THEN [err |-> "none", tree |-> rootOf(truncate(stack, 1)[1])]
    ELSE CASE Head(tokens).k = "comment" -> parseTokens(Tail(tokens), stack, ignoredDepth)
           [] Head(tokens).k = "close" ->
                IF ignoredDepth > 0 THEN parseTokens(Tail(tokens), stack, ignoredDepth - 1)
                ELSE parseTokens(Tail(tokens), closeStackUntil(stack, Head(tokens).tagName), ignoredDepth)
           [] Head(tokens).k = "open" ->
                openToken(Head(tokens), Head(tokens).tagName \in VOID_TAGS \/ Head(tokens).selfClosing,
                          tokens, stack, ignoredDepth)
           [] OTHER -> textToken(Head(tokens), tokens, stack, ignoredDepth)

parseHtml(html) == parseTokens(html, <<ElementNode("__root__", << >>, << >>)>>, 0)

MaxTokens == 4

CommentToken == [k |-> "comment"]

CloseToken(tagName) == [k |-> "close", tagName |-> tagName]

OpenToken(tagName, attrs, selfClosing) ==
    [k |-> "open", tagName |-> tagName, attrs |-> attrs, selfClosing |-> selfClosing]

TextToken(raw) == [k |-> "text", raw |-> raw]

\* the digit of a place in the html
Place(at) == <<DigitChars[at + 1]>>

\* The tokens an html is made of.  An element has the place of its open tag
\* as its id, a text has the place of its token as its last character.
TokenKinds ==
    {"<script>", "</script>", "<p>", "</p>", "</b>", "<br>", "text", "{{ }}", "<x/>", "<!-- -->",
     "<img>", "<img data:>", "<div style>", "<html>"}

TokenOf(kind, at) ==
    CASE kind = "<script>" -> OpenToken("script", "id" :> Place(at), FALSE)
      [] kind = "</script>" -> CloseToken("script")
      [] kind = "<p>" -> OpenToken("p", ("id" :> Place(at)) @@ ("onclick" :> <<"x","(",")">>) @@ ("class" :> <<"c">>), FALSE)
      [] kind = "</p>" -> CloseToken("p")
      [] kind = "</b>" -> CloseToken("b")
      [] kind = "<br>" -> OpenToken("br", "id" :> Place(at), FALSE)
      [] kind = "text" -> TextToken(<<"t">> \o Place(at))
      [] kind = "{{ }}" -> TextToken(<<"{","{"," ","v">> \o Place(at) \o <<":","s","t","r","i","n","g"," ","}","}">>)
      [] kind = "<x/>" -> OpenToken("x", "id" :> Place(at), TRUE)
      [] kind = "<!-- -->" -> CommentToken
      [] kind = "<img>" -> OpenToken("img", ("id" :> Place(at)) @@ ("src" :> <<"h","t","t","p",":","/","/","a","/","b",".","p","n","g">>), FALSE)
      [] kind = "<img data:>" -> OpenToken("img", ("id" :> Place(at)) @@ ("src" :> <<"d","a","t","a",":","x">>), TRUE)
      [] kind = "<div style>" ->
            OpenToken("div", ("id" :> Place(at))
                             @@ ("style" :> <<"c","o","l","o","r",":","r","e","d",";"," ","p","o","s","i","t","i","o","n",":","a","b","s","o","l","u","t","e",";"," ","w","i","d","t","h",":","1","0","%",";"," ","m","a","r","g","i","n",":","c","a","l","c","(","1","p","x",")",";"," ","d","i","s","p","l","a","y",":","F","l","e","x",";"," ","f","o","n","t","-","s","i","z","e",":","1","2","p","x",";"," ","t","o","p",":","0">>)
                             @@ ("data-if" :> <<"a">>) @@ ("data-x" :> <<"y">>), FALSE)
      [] OTHER -> OpenToken("html", "id" :> Place(at), FALSE)

\* the kinds that open and close elements and regions and put text in them
NestingKinds == {"<script>", "</script>", "<p>", "</p>", "</b>", "<br>", "text", "{{ }}", "<x/>"}

MaxPair == 2

RECURSIVE KindLists(_, _)
KindLists(kinds, length) ==
    IF length = 0 THEN {<< >>}
    ELSE {<< >>} \cup {<<first>> \o rest : first \in kinds, rest \in KindLists(kinds, length - 1)}

\* up to MaxTokens tokens of the nesting kinds, and up to MaxPair of all kinds
Htmls ==
    {[at \in DOMAIN kinds |-> TokenOf(kinds[at], at)] :
        kinds \in KindLists(NestingKinds, MaxTokens) \cup KindLists(TokenKinds, MaxPair)}

InitHtml ==
    /\ src \in Htmls
    /\ pc = "html"
    /\ given = [family |-> "html", params |-> << >>]
    /\ tree = << >> /\ data = << >>
    /\ heap = << >> /\ sstack = << >> /\ schema = << >> /\ calls = << >>
    /\ verdict = "none" /\ rstack = << >> /\ out = << >> /\ reads = << >>
    /\ error = NoError /\ segs = << >>
    /\ Object = << >> /\ INTERPOLATION_RE = 0 /\ returned = << >>

\* parseHtml(src)
ParseHtml ==
    /\ pc = "html"
    /\ \E parsed \in {parseHtml(src)} :
          /\ tree' = parsed.tree
          /\ error' = [error EXCEPT !.parse = parsed.err]
    /\ pc' = "tree"
    /\ UNCHANGED <<data, heap, sstack, schema, calls, verdict, rstack, out, reads, src, segs, given,
                   Object, INTERPOLATION_RE, returned>>

NextHtml == ParseHtml

SpecHtml == InitHtml /\ [][NextHtml]_vars

----------------------------------------------------------------------------
(* The claims *)

\* the text chunks renderAst emitted, in order
TextsOf(output) == SelectSeq(output, LAMBDA chunk : chunk.k = "text")

\* the open tags of a tag name renderAst emitted
OpensOf(output, tagName) == SelectSeq(output, LAMBDA chunk : chunk.k = "open" /\ chunk.tagName = tagName)

\* min(N, M) and max(min(N, M), F) of a row input; -1 stands for an absent attribute
EffectiveRows(p) == IF p.max < 0 THEN p.n ELSE Min(p.n, p.max)

TotalRows(p) == Max(EffectiveRows(p), IF p.fixed < 0 THEN 0 ELSE p.fixed)

\* C1: an iterated element over N items with fixed-row count F and max-row
\* count M is emitted max(min(N, M), F) times; instance i < min(N, M) renders
\* item i, and every later instance renders a placeholder whose paths are
\* empty text (so the row "{{ r.n }}-{{ r.q | comma }}" is "-")
C1_RowCountLaw ==
    (pc = "done" /\ given.family = "rows") =>
        /\ error.render = "none"
        /\ Len(OpensOf(out, "tr")) = TotalRows(given.params)
        /\ Len(TextsOf(out)) = TotalRows(given.params)
        /\ \A i \in 1..Len(TextsOf(out)) :
              TextsOf(out)[i].v = IF i <= EffectiveRows(given.params)
                                  THEN <<"a", DigitChars[i]>> \o <<"-","5">>
                                  ELSE <<"-">>

\* the part of C1 that does not depend on what a filter makes of an absent
\* value: the number of instances, and the name each instance renders
RowCountAndBindings ==
    (pc = "done" /\ given.family = "rows") =>
        /\ error.render = "none"
        /\ Len(OpensOf(out, "tr")) = TotalRows(given.params)
        /\ Len(TextsOf(out)) = TotalRows(given.params)
        /\ \A i \in 1..Len(TextsOf(out)) :
              StartsWith(TextsOf(out)[i].v,
                         IF i <= EffectiveRows(given.params) THEN <<"a", DigitChars[i], "-">> ELSE <<"-">>)

\* extractSchemaFromAst has returned a schema
Extracted == pc \in {"extracted", "validated", "render", "done"} /\ error.extract = "none"

\* the declarations walkNode made: one per interpolation and per data-if
IsDeclaration(call) == call.origin \in {"interpolation", "data-if"}

\* a type that is a two-element union including null
IsNullUnion(type) == Len(type) = 2 /\ "null" \in Range(type)

RequiredOf(node) == IF Has(node, "required") THEN node.required ELSE << >>

\* the schema object of a declared path, the object holding it, and its key there
LeafOf(call) == NodeAtSteps(schema, StepsOf(call.path))

ParentOf(call) == NodeAtSteps(schema, SubSeq(StepsOf(call.path), 1, Len(StepsOf(call.path)) - 1))

KeyOf(call) == StepsOf(call.path)[Len(StepsOf(call.path))]

\* C2: in the schema extractSchemaFromAst returns, the type of every leaf is a
\* two-element union including null iff its key is absent from its parent's
\* required list, and both hold iff the interpolation declaring the leaf is
\* nullable (a data-if declares a non-nullable boolean)
C2_RequiredNullableDuality ==
    Extracted =>
        \A i \in DOMAIN calls :
            IsDeclaration(calls[i]) =>
                /\ ExistsAtSteps(schema, StepsOf(calls[i].path))
                /\ IsNullUnion(LeafOf(calls[i]).type) <=> KeyOf(calls[i]) \notin Range(RequiredOf(ParentOf(calls[i])))
                /\ IsNullUnion(LeafOf(calls[i]).type) <=> ~calls[i].required

\* C3: when validateData accepts the data against the extracted schema, every
\* non-nullable interpolation renderAst evaluates outside a padding instance
\* reads a present, non-null value
C3_StaticDynamicAgreement ==
    verdict = "accepted" =>
        \A i \in DOMAIN reads :
            (~reads[i].nullable /\ ~reads[i].padding) => ~IsNullish(reads[i].value)

\* C6: in the schema extractSchemaFromAst returns, the node at the resolved
\* path of every data-if is a leaf of type boolean whose key is in its
\* parent's required list
C6_ConditionIsRequiredBoolean ==
    Extracted =>
        \A i \in DOMAIN calls :
            calls[i].origin = "data-if" =>
                /\ ExistsAtSteps(schema, StepsOf(calls[i].path))
                /\ LeafOf(calls[i]).type = <<"boolean">>
                /\ ~Has(LeafOf(calls[i]), "properties") /\ ~Has(LeafOf(calls[i]), "items")
                /\ KeyOf(calls[i]) \in Range(RequiredOf(ParentOf(calls[i])))

\* what the texts of the shadow tree are to be: per outer item the inner
\* binding's value for every inner item and then the outer binding's value,
\* and at the end the root key of the alias's name
ShadowTexts(p) ==
    Concat([k \in 1..p.outer |-> Copies(p.inner, <<"i","n","n","e","r">>) \o <<<<"o","u","t","e","r">>>>]) \o <<<<"r","o","o","t">>>>

\* the resolved paths the shadow tree's three interpolations are to declare
ShadowPaths == <<<<<<"a","[","]">>, <<"b","[","]">>, <<"v">>>>, <<<<"a","[","]">>, <<"w">>>>, <<<<"x">>>>>>

InterpolationPaths(log) ==
    [i \in DOMAIN SelectSeq(log, LAMBDA call : call.origin = "interpolation") |->
        SelectSeq(log, LAMBDA call : call.origin = "interpolation")[i].path]

\* C4: an alias bound by an iteration element is visible only in that
\* element's subtree, in extractSchemaFromAst and in renderAst: no step
\* changes an alias map that exists (those of parents and siblings) or the map
\* a call on the stack works with, an inner binding of a name is what the
\* inner subtree resolves, and after it the name resolves as before
C4_AliasScoping ==
    [][/\ \A ref \in DOMAIN heap : ref \in DOMAIN heap' /\ heap'[ref] = heap[ref]
       /\ \A k \in DOMAIN sstack \cap DOMAIN sstack' : sstack'[k].ref = sstack[k].ref
       /\ \A k \in DOMAIN rstack \cap DOMAIN rstack' : rstack'[k].ref = rstack[k].ref
       /\ (given.family = "shadow" /\ pc' = "extracted") => InterpolationPaths(calls') = ShadowPaths
       /\ (given.family = "shadow" /\ pc' = "done") =>
             [i \in DOMAIN TextsOf(out') |-> TextsOf(out')[i].v] = ShadowTexts(given.params)]_vars

\* the shadow tree rendered with outer and inner items: the inner subtree and
\* the sibling after it have both resolved the name
C4_Witness ==
    /\ pc = "done" /\ given.family = "shadow"
    /\ given.params.outer >= 1 /\ given.params.inner >= 1
    /\ \E i \in DOMAIN out : out[i].k = "text" /\ out[i].v = <<"i","n","n","e","r">>
    /\ \E i \in DOMAIN out : out[i].k = "text" /\ out[i].v = <<"o","u","t","e","r">>
    /\ Len(heap) > 4

\* the alias and the source of an iteration element
AliasOf(node) == parseIterationExpression(node.attributes[IterationAttr(node)]).alias

SourceOf(node) == parseIterationExpression(node.attributes[IterationAttr(node)]).path

\* the elements enclosing the node at pos, innermost first
Enclosing(pos) == [k \in 1..Len(pos) |-> SubSeq(pos, 1, Len(pos) - k)]

\* Bound: the path of the items the innermost of the elements binding the
\* name binds it to (<< >> when none does).  Expanded: a path with its alias
\* replaced by that, through the outer aliases.
RECURSIVE Bound(_, _)
RECURSIVE Expanded(_, _)
Bound(elements, name) ==
    IF elements = << >> THEN << >>
    ELSE IF IsIterated(NodeAt(tree, Head(elements))) /\ AliasOf(NodeAt(tree, Head(elements))) = name
    THEN Expanded(Tail(elements), SourceOf(NodeAt(tree, Head(elements)))) \o ArraySuffix
    ELSE Bound(Tail(elements), name)

Expanded(elements, path) ==
    IF Bound(elements, Head(normalizePath(path))) = << >> THEN path
    ELSE Join(<<Bound(elements, Head(normalizePath(path)))>> \o Tail(normalizePath(path)), <<".">>)

\* the leaf of a path lies where the path says: below each part but the last
\* is an object (for a part with [], the item schema of an array), and when
\* the declaration is required every key on the way is in its parent's
\* required list
RECURSIVE PlacedAt(_, _, _)
PlacedAt(node, parts, required) ==
    /\ Has(node, "properties") /\ Has(node.properties, PartKey(Head(parts)))
    /\ required => PartKey(Head(parts)) \in Range(RequiredOf(node))
    /\ IF Len(parts) = 1 THEN Has(node.properties[PartKey(Head(parts))], "type")
       ELSE IF EndsWith(Head(parts), ArraySuffix)
       THEN /\ node.properties[PartKey(Head(parts))].type = <<"array">>
            /\ Has(node.properties[PartKey(Head(parts))], "items")
            /\ PlacedAt(node.properties[PartKey(Head(parts))].items, Tail(parts), required)
       ELSE PlacedAt(node.properties[PartKey(Head(parts))], Tail(parts), required)

\* the interpolations of a text node
InterpolationsOf(node) == SelectSeq(node.segments, LAMBDA segment : segment.kind = "interpolation")

ListedFalsy == {Bool(FALSE), Num(0), NegZero, NaN, Str(<< >>), Null, Undefined}

\* C7: renderAst omits an element carrying data-if, with its subtree, exactly
\* when the path resolves to false, 0, -0, NaN, "", null or an absent value
C7_ConditionSkipsFalsy ==
    (pc = "done" /\ given.family = "condition") =>
        /\ error.render = "none"
        /\ ConditionValues[given.params.value] \in ListedFalsy
              => OpensOf(out, "p") = << >> /\ OpensOf(out, "tr") = << >> /\ TextsOf(out) = << >>
        /\ ConditionValues[given.params.value] \notin ListedFalsy
              => Len(OpensOf(out, "p")) + Len(OpensOf(out, "tr")) = 1 /\ TextsOf(out) = <<TextChunk(<<"T">>)>>

\* an empty array as the condition: the element is rendered
C7_Witness ==
    /\ pc = "done" /\ given.family = "condition"
    /\ ConditionValues[given.params.value] = Arr(<< >>)
    /\ TextsOf(out) = <<TextChunk(<<"T">>)>>

\* the chain of an absent-family input holds no default filter
WithoutDefault(chain) == \A i \in DOMAIN chain : ~StartsWith(FilterSources[chain[i]], <<"d","e","f","a","u","l","t">>)

\* C8: for an interpolation whose path resolves to null or to an absent
\* value, of every type and with every accepted filter chain that holds no
\* default filter, renderAst emits empty text and does not raise
C8_AbsentRendersEmpty ==
    (pc = "done" /\ given.family = "absent" /\ WithoutDefault(given.params.chain)) =>
        /\ error.render = "none"
        /\ \A i \in DOMAIN out : out[i].k = "text" => out[i].v = << >>

\* without any filter an absent or null value renders as empty text
AbsentUnfilteredRendersEmpty ==
    (pc = "done" /\ given.family = "absent" /\ given.params.chain = << >>) =>
        /\ error.render = "none"
        /\ \A i \in DOMAIN out : out[i].k = "text" => out[i].v = << >>

\* a filter as written (name and number of arguments) is registered for the
\* type with that many arguments
Registered(f, dataType) ==
    /\ FilterNames[f.name] \in DOMAIN FILTER_SPECS[dataType]
    /\ f.argc >= FILTER_SPECS[dataType][FilterNames[f.name]].min
    /\ f.argc <= FILTER_SPECS[dataType][FilterNames[f.name]].max

\* the filters of a chain as written that are not
Unregistered(chain, dataType) == {i \in DOMAIN chain : ~Registered(chain[i], dataType)}

TypeOfInput == VALID_TYPES[TypeSources[given.params.type]]

\* C9: every filter of a segment parseTextSegments returns is registered
\* for the segment's type with a number of arguments within its bounds; a
\* text with any other filter makes it throw an error naming the filter and
\* the type; applyFilters on a returned segment never throws "Unknown filter"
C9_FiltersCheckedAtParse ==
    /\ (pc \in {"parsed", "done"} /\ error.parse = "none") =>
          \A i \in DOMAIN segs.segments : segs.segments[i].kind = "interpolation" =>
              \A j \in DOMAIN segs.segments[i].filters :
                  /\ segs.segments[i].filters[j].name \in DOMAIN FILTER_SPECS[segs.segments[i].dataType]
                  /\ Len(segs.segments[i].filters[j].args)
                        >= FILTER_SPECS[segs.segments[i].dataType][segs.segments[i].filters[j].name].min
                  /\ Len(segs.segments[i].filters[j].args)
                        <= FILTER_SPECS[segs.segments[i].dataType][segs.segments[i].filters[j].name].max
    /\ (pc \in {"parsed", "done"} /\ given.family = "filter") =>
          IF Unregistered(given.params.chain, TypeOfInput) = {}
          THEN /\ error.parse = "none"
               /\ Len(segs.segments[1].filters) = Len(given.params.chain)
               /\ \A j \in DOMAIN given.params.chain :
                     /\ segs.segments[1].filters[j].name = FilterNames[given.params.chain[j].name]
                     /\ Len(segs.segments[1].filters[j].args) = given.params.chain[j].argc
          ELSE /\ error.parse \in {"Filter is not allowed for type", "Filter expects args"}
               /\ segs.name = FilterNames[given.params.chain[Least(Unregistered(given.params.chain, TypeOfInput))].name]
               /\ segs.dataType = TypeOfInput
    /\ pc = "done" => \A i \in DOMAIN out : out[i].err # "Unknown filter"

\* a chain of two registered filters parsed and applied
C9_Witness ==
    /\ pc = "done" /\ given.family = "filter"
    /\ Len(given.params.chain) = 2
    /\ Len(segs.segments[1].filters) = 2
    /\ segs.segments[1].filters[2].name = <<"p","a","d","-","l","e","f","t">>
    /\ out[1].err = "none"

\* a text with a filter that is not registered for its type has thrown
FilterRejected ==
    /\ pc = "parsed" /\ given.family = "filter"
    /\ error.parse = "Filter is not allowed for type"
    /\ segs.name = <<"u","p","p","e","r">> /\ segs.dataType = "integer"

\* C10: each entry of a constraint list either is a constraint of the parsed
\* segment or makes parseTextSegments throw, so a text that parses has as
\* many constraints as its list has entries
C10_NoEntrySkipped ==
    (pc = "parsed" /\ given.family = "constraints" /\ error.parse = "none") =>
        Len(segs.segments[1].constraints) = Len(given.params.entries)

\* the part that holds: a list of one entry that has a colon is a constraint
\* or a throw
SingleEntryBuiltOrThrown ==
    (pc = "parsed" /\ given.family = "constraints" /\ Len(given.params.entries) = 1
        /\ indexOf(ConstraintEntries[given.params.entries[1]], ":") >= 0) =>
        \/ error.parse # "none"
        \/ Len(segs.segments[1].constraints) = 1

\* C11: an iteration attribute that gives only a source path is accepted by
\* extractSchemaFromAst and by renderAst and binds the default alias (item
\* for data-repeat, page for data-page): the field is declared under the
\* source's items and the item's value is rendered
C11_DefaultAlias ==
    (given.family = "invalid" /\ pc = "done") =>
        /\ error.extract = "none"
        /\ error.render = "none"
        /\ \E i \in DOMAIN calls : calls[i].path = <<<<"r","o","w","s","[","]">>, <<"n">>>>
        /\ TextsOf(out) = <<TextChunk(<<"a","1">>)>>

\* the style of an open tag holds a page-break-after declaration
BreaksAfter(chunk) ==
    /\ "style" \in DOMAIN chunk.attrs
    /\ \E i \in 1..Len(chunk.attrs["style"]) :
          StartsWith(Drop(chunk.attrs["style"], i - 1), <<"p","a","g","e","-","b","r","e","a","k","-","a","f","t","e","r",":">>)

\* C12: of the k instances a data-page element is expanded into, every one
\* but the last carries an injected page-break-after style and the last
\* carries none (the row template sets no break itself)
C12_PageBreakInjected ==
    (pc = "done" /\ given.family = "rows" /\ given.params.attr = "data-page") =>
        \A i \in DOMAIN OpensOf(out, "tr") :
            BreaksAfter(OpensOf(out, "tr")[i]) <=> i < Len(OpensOf(out, "tr"))

\* no instance of the page element carries a break the template did not set
NoBreakInjected ==
    (pc = "done" /\ given.family = "rows") =>
        \A i \in DOMAIN OpensOf(out, "tr") : ~BreaksAfter(OpensOf(out, "tr")[i])

\* the property names of a schema object and of every schema object below it
RECURSIVE KeysBelow(_)
KeysBelow(node) ==
    (IF Has(node, "properties")
     THEN DOMAIN node.properties
            \cup UNION {KeysBelow(node.properties[key]) : key \in DOMAIN node.properties}
     ELSE {})
    \cup (IF Has(node, "items") THEN KeysBelow(node.items) ELSE {})

\* the entries of the required lists of a schema object and of those below it
RECURSIVE RequiredBelow(_)
RequiredBelow(node) ==
    Range(RequiredOf(node))
    \cup (IF Has(node, "properties")
          THEN UNION {RequiredBelow(node.properties[key]) : key \in DOMAIN node.properties}
          ELSE {})
    \cup (IF Has(node, "items") THEN RequiredBelow(node.items) ELSE {})

\* C13: $index and $page have no schema representation: an interpolation
\* inside an iteration whose path starts with one of them adds no property
\* and no required entry to the schema extractSchemaFromAst returns
C13_CompanionsNotInSchema ==
    (Extracted /\ pc # "extract" /\ given.family = "companions") =>
        /\ <<"$","i","n","d","e","x">> \notin KeysBelow(schema) \cup RequiredBelow(schema)
        /\ <<"$","p","a","g","e">> \notin KeysBelow(schema) \cup RequiredBelow(schema)

\* i/i/i+1/k the way a page's own text and a cell's text are written
CompanionText(ordinal, page, count) ==
    NatToStr(ordinal) \o <<"/">> \o NatToStr(page) \o <<"/">> \o NatToStr(page + 1) \o <<"/">> \o NatToStr(count)

\* the texts of the companion tree rendered over `pages` pages of `cells`
\* cells when $page is the page's and $index the nearest iteration's
CompanionTexts(p) ==
    Concat([i \in 1..p.pages |->
                <<CompanionText(i - 1, i - 1, p.pages), NatToStr(i)>>
                \o [j \in 1..p.cells |-> CompanionText(j - 1, i - 1, p.pages)]])

\* C14: at every depth inside a data-page instance $page.index,
\* $page.number and $page.count are that page's 0-based index, its 1-based
\* number and the number of page instances, and $index is the 0-based
\* ordinal of the nearest enclosing iteration instance
C14_PageCompanions ==
    (pc = "done" /\ given.family = "companions") =>
        /\ error.render = "none"
        /\ [i \in DOMAIN TextsOf(out) |-> TextsOf(out)[i].v] = CompanionTexts(given.params)

\* outside an inner iteration the companions are the page's
PageCompanionsOutsideRepeat ==
    (pc = "done" /\ given.family = "companions" /\ given.params.cells = 0) =>
        /\ error.render = "none"
        /\ [i \in DOMAIN TextsOf(out) |-> TextsOf(out)[i].v] = CompanionTexts(given.params)

\* the schema node of x carries the inline value of the input's field
HasInlineValue(sch) ==
    /\ Has(sch, "properties") /\ Has(sch.properties, <<"x">>)
    /\ Has(sch.properties[<<"x">>], SemanticFields[given.params.field].keyword)
    /\ sch.properties[<<"x">>][SemanticFields[given.params.field].keyword]
          = IF SemanticFields[given.params.field].keyword = "examples" THEN <<<<"i","n","l","i","n","e">>>> ELSE <<"i","n","l","i","n","e">>

InlineOverMeta ==
    (given.family = "semantic" /\ given.params.again # "after" /\ pc = "extracted") => HasInlineValue(schema)

\* C19: every error of extractSchema or render is raised while the template
\* is parsed, before the schema traversal or the render traversal visits a
\* node: a step of a traversal that has started raises nothing
C19_ErrorsOnlyAtParse ==
    [][/\ pc = "extract" => error'.extract = "none"
       /\ pc = "render" => error'.render = "none"]_vars

\* a traversal over a tree whose iteration expressions are well formed and
\* whose filters are given values they can format raises nothing
WellFormedTraversalCompletes ==
    (given.family \in {"rows", "nested", "shadow", "condition", "companions", "semantic"}) =>
        error.extract = "none" /\ error.render = "none"

\* a value is of a JSON Schema type
IsOfType(value, type) ==
    CASE type = "null" -> value.t = "null"
      [] type = "object" -> isPlainObject(value)
      [] type = "array" -> IsArray(value)
      [] type = "integer" -> IsFiniteNum(value)
      [] type = "number" -> value.t = "number" /\ value.k # "NaN"
      [] OTHER -> value.t = type

Violation(path, keyword) == [path |-> path, keyword |-> keyword]

\* the keyword an error message of the validator is about
KeywordOf(message) ==
    CASE message = "required property missing" -> "required"
      [] message = "value is not in enum" -> "enum"
      [] message = "value is not const" -> "const"
      [] message \in {"shorter than minLength", "longer than maxLength"} -> "length"
      [] message = "pattern mismatch" -> "pattern"
      [] message \in {"smaller than minimum", "larger than maximum", "not greater than exclusiveMinimum",
                      "not less than exclusiveMaximum", "not multipleOf"} -> "bounds"
      [] message = "invalid format" -> "format"
      [] OTHER -> "type"

\* the keywords of a schema node that a value violates, each with the data
\* path of the violating value, every keyword taken on its own; an object
\* is followed into its properties and an array into its items
RECURSIVE Violations(_, _, _)
ScalarViolations(value, sch, path) ==
    (IF Has(sch, "type") /\ ~\E i \in DOMAIN sch["type"] : IsOfType(value, sch["type"][i])
     THEN {Violation(path, "type")} ELSE {})
    \cup (IF Has(sch, "enum") /\ value \notin Range(sch["enum"].array) THEN {Violation(path, "enum")} ELSE {})
    \cup (IF Has(sch, "const") /\ value # sch["const"] THEN {Violation(path, "const")} ELSE {})
    \cup (IF value.t = "string"
             /\ \/ HasNumber(sch, "minLength") /\ NumLess(Num(Len(value.v)), sch["minLength"])
                \/ HasNumber(sch, "maxLength") /\ NumLess(sch["maxLength"], Num(Len(value.v)))
          THEN {Violation(path, "length")} ELSE {})
    \cup (IF value.t = "string" /\ Has(sch, "pattern") /\ ~PatternTest(sch["pattern"].v, value.v)
          THEN {Violation(path, "pattern")} ELSE {})
    \cup (IF value.t = "number"
             /\ \/ HasNumber(sch, "minimum") /\ NumLess(value, sch["minimum"])
                \/ HasNumber(sch, "maximum") /\ NumLess(sch["maximum"], value)
                \/ HasNumber(sch, "exclusiveMinimum") /\ NumLessEq(value, sch["exclusiveMinimum"])
                \/ HasNumber(sch, "exclusiveMaximum") /\ NumLessEq(sch["exclusiveMaximum"], value)
                \/ HasNumber(sch, "multipleOf") /\ RemainderNonZero(value, sch["multipleOf"])
          THEN {Violation(path, "bounds")} ELSE {})
    \cup (IF value.t = "string" /\ Has(sch, "format")
             /\ validateStringFormat(value.v, sch["format"], path).err # "none"
          THEN {Violation(path, "format")} ELSE {})

Violations(value, sch, path) ==
    ScalarViolations(value, sch, path)
    \cup (IF isPlainObject(value) /\ Has(sch, "required")
          THEN {Violation(path \o <<".">> \o key, "required") :
                    key \in {k \in Range(sch["required"]) : k \notin DOMAIN value.v \/ value.v[k].t = "undefined"}}
          ELSE {})
    \cup (IF isPlainObject(value) /\ Has(sch, "properties")
          THEN UNION {Violations(value.v[key], sch["properties"][key], path \o <<".">> \o key) :
                        key \in {k \in DOMAIN value.v \cap DOMAIN sch["properties"] : value.v[k].t # "undefined"}}
          ELSE {})
    \cup (IF IsArray(value) /\ Has(sch, "items")
          THEN UNION {Violations(value.v[i], sch["items"], path \o <<"[">> \o NatToStr(i - 1) \o <<"]">>) :
                        i \in DOMAIN value.v}
          ELSE {})

\* validateData's outcome against the keywords the data violates
AgreesWithKeywords(outcome, violated) ==
    /\ outcome.err = "none" <=> violated = {}
    /\ outcome.err # "none" => Violation(outcome.path, KeywordOf(outcome.err)) \in violated

\* C20: validateData throws when a keyword (required, type, enum, const,
\* length, pattern, bounds, format) is violated, the error naming the data
\* path of a violating value, and returns without error on data that
\* violates none; a missing or undefined required key makes it throw at any
\* depth and inside every array item
C20_FirstViolationThrown ==
    (pc = "validated" /\ error.extract = "none") =>
        /\ verdict = (IF validateData(data, schema).err = "none" THEN "accepted" ELSE "rejected")
        /\ AgreesWithKeywords(validateData(data, schema), Violations(data, schema, <<"$","d","a","t","a">>))

\* on data without a null under an enum or a const the validator and the
\* keywords agree
AgreesWithoutNullEnum ==
    (pc = "validated" /\ error.extract = "none"
        /\ (given.family = "checked" => \A i \in DOMAIN given.params.items : given.params.items[i] # 2)) =>
        AgreesWithKeywords(validateData(data, schema), Violations(data, schema, <<"$","d","a","t","a">>))

\* a required key missing inside an array item has made validateData throw
RequiredMissingInItem ==
    /\ pc = "validated" /\ given.family = "checked"
    /\ given.params.items = <<1, 4>>
    /\ verdict = "rejected" /\ error.validate = "required property missing"
    /\ validateData(data, schema).path = <<"$","d","a","t","a",".","r","o","w","s","[","1","]",".","n">>

\* the calls of extractSchemaFromAst that returned a schema
Compiled == {i \in DOMAIN returned :
                returned[i].fn = "extractSchemaFromAst" /\ returned[i].result.error.extract = "none"}

\* the list is in the order Array.prototype.sort() puts it in
IsSorted(list) == \A i \in 1..(Len(list) - 1) : ~StrLess(list[i + 1], list[i])

\* every required list of a schema, its own and those below it, is sorted
RECURSIVE RequiredSorted(_)
RequiredSorted(node) ==
    /\ Has(node, "required") => IsSorted(node.required)
    /\ Has(node, "properties") => \A p \in DOMAIN node.properties : RequiredSorted(node.properties[p])
    /\ Has(node, "items") => RequiredSorted(node.items)

\* the trees with a path through a name every object inherits
InheritedTrees == {input.tree : input \in InheritedInputs}

TwiceCanonicalOnOwnPaths ==
    \A i \in Compiled : \A j \in Compiled :
        (i < j /\ returned[i].args.tree = returned[j].args.tree /\ returned[i].args.tree \notin InheritedTrees) =>
            /\ returned[i].result.schema = returned[j].result.schema
            /\ RequiredSorted(returned[i].result.schema)
            /\ RequiredSorted(returned[j].result.schema)

\* a tree has been compiled twice, with something else compiled between
CompiledTwice ==
    \E i \in Compiled : \E j \in Compiled :
        /\ i + 1 < j /\ returned[i].args.tree = returned[j].args.tree
        /\ returned[i].args.tree \notin InheritedTrees
        /\ returned[i + 1].fn = "extractSchemaFromAst" /\ returned[i + 1].args.tree \in InheritedTrees

\* the arrays of the tree a schema refers to
RECURSIVE ArraysOfTree(_)
ArraysOfTree(node) ==
    (IF Has(node, "enum") /\ node["enum"].owner = "tree" THEN {node["enum"].array} ELSE {})
    \cup (IF Has(node, "properties")
          THEN UNION {ArraysOfTree(node.properties[p]) : p \in DOMAIN node.properties} ELSE {})
    \cup (IF Has(node, "items") THEN ArraysOfTree(node.items) ELSE {})

TreeNotMutated ==
    [][/\ pc # "idle" => tree' = tree
       /\ \A i \in DOMAIN returned' :
              (returned'[i].fn = "extractSchemaFromAst" /\ returned'[i].args.tree \notin InheritedTrees)
                  => ArraysOfTree(returned'[i].result.schema) = {}]_vars

\* there is an enum in a schema
RECURSIVE HasEnum(_)
HasEnum(node) ==
    \/ Has(node, "enum")
    \/ Has(node, "properties") /\ \E p \in DOMAIN node.properties : HasEnum(node.properties[p])
    \/ Has(node, "items") /\ HasEnum(node.items)

\* a schema with an enum has been returned for a tree without such a path
EnumReturned ==
    \E i \in Compiled : returned[i].args.tree \notin InheritedTrees /\ HasEnum(returned[i].result.schema)

CursorNeverRead ==
    \A j \in DOMAIN returned :
        /\ (returned[j].fn = returned[1].fn /\ returned[j].args = returned[1].args
                /\ (returned[j].fn = "extractSchemaFromAst" => returned[j].args.tree \notin InheritedTrees))
              => returned[j].result = returned[1].result
        /\ returned[j].fn = "parseTextSegments" => returned[j].result = parseTextSegments(returned[j].args.text)

\* parseTextSegments has been called while the cursor was left in a text by
\* a call that threw
CalledAfterThrow ==
    /\ pc = "idle" /\ Len(returned) >= 2 /\ INTERPOLATION_RE = 0
    /\ returned[Len(returned) - 1].fn = "parseTextSegments"
    /\ returned[Len(returned) - 1].result.err # "none"
    /\ returned[Len(returned)].fn = "parseTextSegments"
    /\ returned[Len(returned)].result.err = "none"
    /\ returned[Len(returned)].args.text # << >>

\* the entity of a character, or the character
RECURSIVE Entities(_)
Entities(s) ==
    IF s = << >> THEN << >>
    ELSE (CASE Head(s) = "&" -> <<"&","a","m","p",";">>
            [] Head(s) = "<" -> <<"&","l","t",";">>
            [] Head(s) = ">" -> <<"&","g","t",";">>
            [] Head(s) = "\"" -> <<"&","q","u","o","t",";">>
            [] OTHER -> <<Head(s)>>) \o Entities(Tail(s))

\* a text has no '<', '>' or '"', and every '&' of it starts an entity
MarkupFree(text) ==
    \A i \in DOMAIN text :
        /\ text[i] \notin {"<", ">", "\""}
        /\ text[i] = "&" => \E entity \in {<<"&","a","m","p",";">>, <<"&","l","t",";">>, <<"&","g","t",";">>, <<"&","q","u","o","t",";">>} :
                                StartsWith(Drop(text, i - 1), entity)

\* the text of an interpolation whose filter chain returned
TextOfFiltered(filtered) == IF IsNullish(filtered.v) THEN << >> ELSE Entities(ToStr(filtered.v))

\* what the filter chain of the escaped text returns for the value given
EscapedFiltered ==
    applyFilters(getByPath(data, << >>, <<"v">>), NodeAt(tree, <<1, 1>>).segments[2].filters,
                 [dataType |-> "string", timezone |-> collectGlobalConfig(tree).timezone])

\* C21: every text renderAst emits has the four characters only as entities,
\* and the text of a literal followed by an interpolation is the literal and
\* the value the filter chain returned, each escaped once
C21_TextEscapedOnce ==
    pc = "done" =>
        /\ \A i \in DOMAIN out : out[i].k = "text" => MarkupFree(out[i].v)
        /\ (given.family = "escaped" /\ error.render = "none") =>
                TextsOf(out) = <<TextChunk(Entities(EscapedLiteral) \o TextOfFiltered(EscapedFiltered))>>

\* a value with '&' and '"' has been rendered after a filter put another '&' in
C21_Witness ==
    /\ pc = "done" /\ given.family = "escaped" /\ given.params = [value |-> 3, filter |-> 3]
    /\ TextsOf(out) = <<TextChunk(<<"R","&","a","m","p",";","D"," ","&","g","t",";"," ","&","q","u","o","t",";","x","&","q","u","o","t",";"," ","&","a","m","p",";","&","a","m","p",";","&","q","u","o","t",";","b">>)>>

\* the array node an iteration attribute declared is there, with an object
\* item schema
ArrayLeft(call) ==
    /\ ExistsAtSteps(schema, StepsOf(call.path))
    /\ TypeOf(LeafOf(call)) = <<"array">>
    /\ Has(LeafOf(call), "items") /\ TypeOf(LeafOf(call).items) = <<"object">>

\* what a declaration put in the schema is there: its leaf, and its key in
\* the required list of the object holding it when it is required
StillPresent(call) ==
    /\ ExistsAtSteps(schema, StepsOf(call.path))
    /\ call.required => KeyOf(call) \in Range(RequiredOf(ParentOf(call)))

\* C22: in the schema of two sibling iteration elements every iteration
\* attribute has left an array node with an object item schema, and every
\* property and required entry declared under an array is still there
C22_IterationMergesItems ==
    (Extracted /\ pc # "extract" /\ given.family = "siblings") =>
        \A i \in DOMAIN calls :
            IF IsDeclaration(calls[i]) THEN StillPresent(calls[i]) ELSE ArrayLeft(calls[i])

\* two sibling elements repeating two sources keep what each declared
SiblingSourcesKept ==
    (Extracted /\ pc # "extract" /\ given.family = "siblings" /\ ~given.params.same) =>
        \A i \in DOMAIN calls :
            IF IsDeclaration(calls[i]) THEN StillPresent(calls[i]) ELSE ArrayLeft(calls[i])

\* the keywords of a leaf schema other than its type
KeywordsOf(leafSchema) == DOMAIN leafSchema \ {"type"}

\* the value the returned schema has for a keyword a leaf schema declared
ReturnedFor(leafSchema, keyword) ==
    IF keyword = "enum" THEN mapArray(leafSchema[keyword]) ELSE leafSchema[keyword]

\* the last declaration of the keyword among the calls
LastDeclaring(keyword) ==
    CHOOSE i \in DOMAIN calls :
        /\ keyword \in KeywordsOf(calls[i].leafSchema)
        /\ \A j \in DOMAIN calls : j > i => keyword \notin KeywordsOf(calls[j].leafSchema)

\* the interpolations among the calls
Interpolated == {i \in DOMAIN calls : calls[i].origin = "interpolation"}

\* the schema object of the path has every keyword a call declared, each with
\* the value of the last call declaring that keyword
KeywordsKept(i) ==
    /\ ExistsAtSteps(schema, StepsOf(calls[i].path))
    /\ \A keyword \in KeywordsOf(calls[i].leafSchema) :
          /\ Has(LeafOf(calls[i]), keyword)
          /\ LeafOf(calls[i])[keyword] = ReturnedFor(calls[LastDeclaring(keyword)].leafSchema, keyword)

\* C23: two interpolations that resolve to one path leave one schema object,
\* which has every keyword either of them declared, none removed by a later
\* one, each with the value of the last interpolation declaring that keyword
C23_SamePathMerged ==
    (Extracted /\ given.family = "merged") =>
        /\ Cardinality(Interpolated) = 2
        /\ \A i, j \in Interpolated : calls[i].path = calls[j].path
        /\ \A i \in Interpolated : KeywordsKept(i)

\* two interpolations of one path in two paragraphs, no iteration being there
MergedInParagraphs ==
    (Extracted /\ given.family = "merged" /\ ~given.params.rows) =>
        /\ Cardinality(Interpolated) = 2
        /\ \A i, j \in Interpolated : calls[i].path = calls[j].path
        /\ \A i \in Interpolated : KeywordsKept(i)

\* the second paragraph declares none of the keywords of the first, and the
\* schema object has the keywords of both
MergedKeywordsOfBoth ==
    /\ Extracted /\ given.family = "merged" /\ ~given.params.rows
    /\ KeywordsOf(calls[1].leafSchema) # {} /\ KeywordsOf(calls[2].leafSchema) # {}
    /\ KeywordsOf(calls[1].leafSchema) \cap KeywordsOf(calls[2].leafSchema) = {}
    /\ KeywordsOf(LeafOf(calls[2])) = KeywordsOf(calls[1].leafSchema) \cup KeywordsOf(calls[2].leafSchema)

\* the schema objects along the steps of a path, the root first, without the leaf
RECURSIVE AncestorsAt(_, _)
AncestorsAt(node, steps) ==
    IF Len(steps) <= 1 THEN <<node>>
    ELSE <<node>> \o AncestorsAt(NodeAtSteps(node, <<Head(steps)>>), Tail(steps))

\* C24: the only interpolation of a tree being nullable, the root and every
\* intermediate object of its path have an empty required list in the schema
\* extractSchemaFromAst returns
C24_NullableAddsNoRequired ==
    (Extracted /\ given.family = "deep" /\ given.params.nullable) =>
        \A i \in DOMAIN AncestorsAt(schema, StepsOf(calls[1].path)) :
            RequiredOf(AncestorsAt(schema, StepsOf(calls[1].path))[i]) = << >>

\* the key of a nullable interpolation is not in the required list of the
\* object holding it, and every key of the path of an interpolation that is
\* not nullable is in the required list of the object holding it
LeafRequiredUnlessNullable ==
    (Extracted /\ given.family = "deep") =>
        /\ (KeyOf(calls[1]) \in Range(RequiredOf(ParentOf(calls[1])))) <=> ~given.params.nullable
        /\ ~given.params.nullable =>
              \A i \in DOMAIN AncestorsAt(schema, StepsOf(calls[1].path)) :
                  RequiredOf(AncestorsAt(schema, StepsOf(calls[1].path))[i]) = <<StepsOf(calls[1].path)[i]>>

\* a nullable interpolation of one part, which leaves no required entry
NullableOfOnePart ==
    /\ Extracted /\ given.family = "deep" /\ given.params.nullable /\ given.params.parts = 1
    /\ RequiredOf(schema) = << >>

\* two elements that differ in the order of their children at most
SiblingsPermuted(a, b) ==
    /\ a.tagName = b.tagName /\ a.attributes = b.attributes
    /\ Len(a.children) = Len(b.children)
    /\ \E order \in [DOMAIN a.children -> DOMAIN b.children] :
          /\ \A i, j \in DOMAIN order : order[i] = order[j] => i = j
          /\ \A i \in DOMAIN order : a.children[i] = b.children[order[i]]

OrderedTrees == {input.tree : input \in OrderedInputs}

\* the paths the paragraphs of a tree declare
DeclaredBy(root) == {root.children[i].children[1].segments[1].path : i \in DOMAIN root.children}

\* C25: two trees that differ in the order of the children of the root only
\* compile to equal schemas
C25_SiblingOrderIrrelevant ==
    \A i \in Compiled : \A j \in Compiled :
        (/\ returned[i].args.tree \in OrderedTrees /\ returned[j].args.tree \in OrderedTrees
         /\ SiblingsPermuted(returned[i].args.tree, returned[j].args.tree)) =>
            returned[i].result.schema = returned[j].result.schema

\* of two such trees whose paragraphs declare two paths the schemas are equal
OrderOfTwoPathsIrrelevant ==
    \A i \in Compiled : \A j \in Compiled :
        (/\ returned[i].args.tree \in OrderedTrees /\ returned[j].args.tree \in OrderedTrees
         /\ SiblingsPermuted(returned[i].args.tree, returned[j].args.tree)
         /\ Cardinality(DeclaredBy(returned[i].args.tree)) = 2) =>
            returned[i].result.schema = returned[j].result.schema

\* two trees declaring two paths in two orders have been compiled
BothOrdersCompiled ==
    \E i \in Compiled : \E j \in Compiled :
        /\ returned[i].args.tree \in OrderedTrees /\ returned[j].args.tree \in OrderedTrees
        /\ returned[i].args.tree # returned[j].args.tree
        /\ SiblingsPermuted(returned[i].args.tree, returned[j].args.tree)
        /\ Cardinality(DeclaredBy(returned[i].args.tree)) = 2

\* the filters of the one interpolation of the tree, and the context
\* renderNode applies them in
FiltersGiven == NodeAt(tree, <<1, 1>>).segments[1].filters

ContextGiven == [dataType |-> NodeAt(tree, <<1, 1>>).segments[1].dataType,
                 timezone |-> collectGlobalConfig(tree).timezone]

\* the place of the first default in a chain as written
FirstDefault(chain) == Least({i \in DOMAIN chain : chain[i] = DefaultFilter})

\* what rendering shows of a value put through filters: the error thrown, or
\* the one text
Shows(filtered) ==
    IF filtered.err # "none" THEN error.render = filtered.err
    ELSE error.render = "none" /\ TextsOf(out) = <<TextChunk(TextOfFiltered(filtered))>>

\* C26: where the value is null or absent and the chain has default:z, the
\* rendered text is z put through the filters after the first default,
\* whatever filters stand before it; and default leaves 0, false and the
\* empty string as they are
C26_NullReachesDefault ==
    /\ (pc = "done" /\ given.family = "absent" /\ DefaultFilter \in Range(given.params.chain)) =>
          Shows(applyFilters(Str(<<"z">>), Drop(FiltersGiven, FirstDefault(given.params.chain)), ContextGiven))
    /\ (pc = "done" /\ given.family = "defaulted") =>
          Shows(Returned(given.params.value))

\* the same where default is the first filter of the chain
DefaultFirstReplacesNull ==
    /\ (pc = "done" /\ given.family = "absent" /\ DefaultFilter \in Range(given.params.chain)
            /\ FirstDefault(given.params.chain) = 1) =>
          Shows(applyFilters(Str(<<"z">>), Drop(FiltersGiven, 1), ContextGiven))
    /\ (pc = "done" /\ given.family = "defaulted") =>
          Shows(Returned(given.params.value))

\* a null value has been replaced by default and upper-cased after it
DefaultThenUpper ==
    /\ pc = "done" /\ given.family = "absent" /\ given.params.value = Null
    /\ given.params.chain = <<DefaultFilter, 1>>
    /\ TextsOf(out) = <<TextChunk(<<"Z">>)>>

\* the number 0 has been rendered as 0 after default
ZeroKeptByDefault ==
    /\ pc = "done" /\ given.family = "defaulted" /\ given.params.value = Num(0)
    /\ TextsOf(out) = <<TextChunk(<<"0">>)>>

\* a text starts with a constraint name and a colon
StartsKeyword(text) == \E i \in DOMAIN constraintNames : StartsWith(text, constraintNames[i] \o <<":">>)

\* the constraint list as written between the parentheses
BodyGiven == Join([i \in DOMAIN given.params.entries |-> ConstraintEntries[given.params.entries[i]]], <<","," ">>)

\* the entries of the list given: its one comma followed by a space ends the
\* first entry iff a constraint name and a colon follow it
EntriesGiven ==
    IF Len(given.params.entries) = 2 /\ StartsKeyword(ConstraintEntries[given.params.entries[2]])
    THEN <<ConstraintEntries[given.params.entries[1]], ConstraintEntries[given.params.entries[2]]>>
    ELSE <<BodyGiven>>

\* the constraint of an entry: its name before the first colon, its value after
ConstraintOf(entry, dataType) ==
    buildConstraint(Trim(SubSeq(entry, 1, indexOf(entry, ":"))), Trim(Drop(entry, indexOf(entry, ":") + 1)), dataType)

\* C27: a comma of a constraint list ends an entry iff a constraint name and
\* a colon follow it, and the segment of a list that parses has one
\* constraint per entry, in the order written
C27_OneConstraintPerEntry ==
    (pc = "parsed" /\ given.family = "constraints") =>
        /\ quoteAwareSplitConstraints(BodyGiven) = EntriesGiven
        /\ error.parse = "none" =>
              /\ Len(segs.segments[1].constraints) = Len(EntriesGiven)
              /\ \A i \in DOMAIN EntriesGiven :
                    segs.segments[1].constraints[i] = ConstraintOf(EntriesGiven[i], TypeOfInput).constraint

\* the same for the lists whose entries all have a colon
CommaSplitsBeforeKeyword ==
    (pc = "parsed" /\ given.family = "constraints") =>
        /\ quoteAwareSplitConstraints(BodyGiven) = EntriesGiven
        /\ (error.parse = "none" /\ \A i \in DOMAIN EntriesGiven : indexOf(EntriesGiven[i], ":") >= 0) =>
              /\ Len(segs.segments[1].constraints) = Len(EntriesGiven)
              /\ \A i \in DOMAIN EntriesGiven :
                    segs.segments[1].constraints[i] = ConstraintOf(EntriesGiven[i], TypeOfInput).constraint

\* (enum:a,b, max:5) on a string has parsed to an enum of a and b and a
\* greatest length of 5
EnumThenMax ==
    /\ pc = "parsed" /\ given.family = "constraints" /\ given.params = [type |-> 1, entries |-> <<7, 2>>]
    /\ error.parse = "none"
    /\ Len(segs.segments[1].constraints) = 2
    /\ segs.segments[1].constraints[1].kind = "enum"
    /\ segs.segments[1].constraints[1].values = <<Str(<<"a">>), Str(<<"b">>)>>
    /\ segs.segments[1].constraints[2].kind = "maxLength"

\* the constraints and the filters written in the quoted texts
QuotedConstraints ==
    <<<< >>,
      <<[kind |-> "enum", values |-> <<Str(<<"p",",","q">>), Str(<<"r",")">>)>>], [kind |-> "maxLength", value |-> Num(3)]>>,
      <<[kind |-> "pattern", value |-> Str(<<"(","a","|","b",")">>)]>>,
      << >>,
      <<[kind |-> "fixed", value |-> Str(<<"|">>)]>>,
      <<[kind |-> "enum", values |-> <<Str(<<"a",","," ","m","a","x",":","1">>), Str(<<"b">>)>>], [kind |-> "minLength", value |-> Num(2)]>>>>

QuotedFilters ==
    <<<<[name |-> <<"r","e","p","l","a","c","e">>, args |-> <<<<"x","|","y">>, <<"(">>>>], [name |-> <<"u","p","p","e","r">>, args |-> << >>]>>,
      <<[name |-> <<"d","e","f","a","u","l","t">>, args |-> <<<<"(",",",")">>>>]>>,
      <<[name |-> <<"d","e","f","a","u","l","t">>, args |-> <<<<"\"","x","\"">>>>]>>,
      <<[name |-> <<"d","e","f","a","u","l","t">>, args |-> <<<<"\"">>>>], [name |-> <<"r","e","p","l","a","c","e">>, args |-> <<Apostrophe, <<"z">>>>]>>,
      << >>,
      << >>>>

\* C28: a text with '|', '(', ')' and ',' between quotes parses to the one
\* interpolation with the constraints and the filters as written, in their
\* order, each value without the one pair of quotes around it
C28_QuotedRegionsOpaque ==
    (pc \in {"parsed", "done"} /\ given.family = "quoted") =>
        /\ error.parse = "none"
        /\ Len(segs.segments) = 1
        /\ segs.segments[1].kind = "interpolation"
        /\ segs.segments[1].path = <<"a">> /\ segs.segments[1].dataType = "string"
        /\ segs.segments[1].constraints = QuotedConstraints[given.params.text]
        /\ segs.segments[1].filters = QuotedFilters[given.params.text]

\* the text with a quoted '|' and a quoted '(' among the arguments of a
\* filter has parsed, and its two filters have been applied
C28_Witness ==
    /\ pc = "done" /\ given.family = "quoted" /\ given.params.text = 1
    /\ Len(segs.segments[1].filters) = 2
    /\ segs.segments[1].filters[1].args = <<<<"x","|","y">>, <<"(">>>>
    /\ out[1].err = "none"

\* C30: of an element with data-page and data-repeat extractSchemaFromAst
\* declares both arrays and binds both aliases, data-page first and the
\* source of data-repeat through its alias; renderAst renders one instance
\* per item of the data-page source, with the data-repeat alias unbound, so
\* that a path through it is read from the root of the data
C30_PageAndRepeat ==
    /\ (Extracted /\ given.family = "both") =>
          /\ [i \in DOMAIN calls |-> calls[i].origin] = <<"data-page", "data-repeat", "interpolation", "interpolation">>
          /\ [i \in DOMAIN calls |-> calls[i].path]
                = <<<<<<"p","a","g","e","s">>>>, <<<<"p","a","g","e","s","[","]">>, <<"i","t","e","m","s">>>>, <<<<"p","a","g","e","s","[","]">>, <<"t">>>>, <<<<"p","a","g","e","s","[","]">>, <<"i","t","e","m","s","[","]">>, <<"n">>>>>>
          /\ ArrayLeft(calls[1]) /\ ArrayLeft(calls[2])
          /\ ExistsAtSteps(schema, StepsOf(calls[3].path)) /\ ExistsAtSteps(schema, StepsOf(calls[4].path))
    /\ (pc = "done" /\ given.family = "both") =>
          /\ error.render = "none"
          /\ TextsOf(out) = [k \in 1..given.params.pages |->
                                TextChunk(<<"T">> \o (IF given.params.root THEN <<"R">> ELSE << >>))]

\* two pages of three items each have been rendered as two instances, each
\* with the n of the root's i
C30_Witness ==
    /\ pc = "done" /\ given.family = "both" /\ given.params = [pages |-> 2, root |-> TRUE]
    /\ TextsOf(out) = <<TextChunk(<<"T","R">>), TextChunk(<<"T","R">>)>>
    /\ ExistsAtSteps(schema, <<<<"p","a","g","e","s">>, ArraySuffix, <<"i","t","e","m","s">>, ArraySuffix, <<"n">>>>)

\* an open tag that starts a disallowed element with content
OpensRegion(token) ==
    token.k = "open" /\ token.tagName \notin ALLOWED_TAGS
        /\ ~(token.tagName \in VOID_TAGS \/ token.selfClosing)

\* the tags of a name between two places: those that open an element with
\* content, and those that close one
OpenedBetween(html, tagName, from, to) ==
    {at \in (from + 1)..(to - 1) :
        /\ html[at].k = "open" /\ html[at].tagName = tagName
        /\ ~(html[at].tagName \in VOID_TAGS \/ html[at].selfClosing)}

ClosedBetween(html, tagName, from, to) ==
    {at \in (from + 1)..(to - 1) : html[at].k = "close" /\ html[at].tagName = tagName}

\* the places of the closing tags that match the open tag at a place: of its
\* name, with as many elements of that name opened as closed in between
MatchingCloses(html, from) ==
    {to \in (from + 1)..Len(html) :
        /\ html[to].k = "close" /\ html[to].tagName = html[from].tagName
        /\ Cardinality(OpenedBetween(html, html[from].tagName, from, to))
              = Cardinality(ClosedBetween(html, html[from].tagName, from, to))}

\* the disallowed regions from a place on, as pairs of the places of the open
\* tag and its matching closing tag; complete is FALSE when a disallowed
\* element has no matching closing tag
RECURSIVE RegionsFrom(_, _)
RegionsFrom(html, from) ==
    IF from > Len(html) THEN [regions |-> {}, complete |-> TRUE]
    ELSE IF ~OpensRegion(html[from]) THEN RegionsFrom(html, from + 1)
    ELSE IF MatchingCloses(html, from) = {} THEN [regions |-> {}, complete |-> FALSE]
    ELSE With(RegionsFrom(html, Least(MatchingCloses(html, from)) + 1), LAMBDA rest :
            [regions |-> {<<from, Least(MatchingCloses(html, from))>>} \cup rest.regions,
             complete |-> rest.complete])

\* the places between the tags of a disallowed region, and with the tags
InsideRegion(html) ==
    {at \in DOMAIN html : \E region \in RegionsFrom(html, 1).regions : region[1] < at /\ at < region[2]}

OfRegion(html) ==
    {at \in DOMAIN html : \E region \in RegionsFrom(html, 1).regions : region[1] <= at /\ at <= region[2]}

\* the html without the tokens at the places
RECURSIVE Without(_, _)
Without(html, places) ==
    IF html = << >> THEN << >>
    ELSE Without(SubSeq(html, 1, Len(html) - 1), places)
            \o (IF Len(html) \in places THEN << >> ELSE <<html[Len(html)]>>)

\* the place a digit stands for
PlaceOf(digit) == IndexOf(DigitChars, digit) - 1

\* the places of the tokens the nodes of a tree come from
RECURSIVE PlacesIn(_)
PlacesIn(node) ==
    IF node.type = "text"
    THEN {PlaceOf(node.segments[i].value[2]) : i \in {j \in DOMAIN node.segments : node.segments[j].kind = "literal"}}
         \cup {PlaceOf(node.segments[i].path[2]) :
                    i \in {j \in DOMAIN node.segments : node.segments[j].kind = "interpolation"}}
    ELSE (IF "id" \in DOMAIN node.attributes THEN {PlaceOf(node.attributes["id"][1])} ELSE {})
         \cup UNION {PlacesIn(node.children[i]) : i \in DOMAIN node.children}

\* every element of a tree has an allowed tag and allowed attributes only
RECURSIVE OnlyAllowed(_)
OnlyAllowed(node) ==
    node.type = "element" =>
        /\ node.tagName \in ALLOWED_TAGS
        /\ DOMAIN node.attributes \subseteq ALLOWED_ATTRIBUTES \cup ALLOWED_DATA_ATTRIBUTES
        /\ \A i \in DOMAIN node.children : OnlyAllowed(node.children[i])

\* C29: the tree parseHtml returns has allowed tags and attributes only; of
\* an html whose disallowed elements all have a matching closing tag it has
\* no node from between the tags of a disallowed element, and it is the tree
\* of the html without those elements
C29_DisallowedRegionRemoved ==
    (pc = "tree" /\ error.parse = "none") =>
        /\ OnlyAllowed(tree)
        /\ RegionsFrom(src, 1).complete =>
              /\ PlacesIn(tree) \cap InsideRegion(src) = {}
              /\ tree = parseHtml(Without(src, OfRegion(src))).tree

\* a disallowed region has tags of its own name only, or none
PlainRegions(html) ==
    \A at \in InsideRegion(html) :
        html[at].k \in {"open", "close"} =>
            \/ html[at].tagName \in VOID_TAGS \/ (html[at].k = "open" /\ html[at].selfClosing)
            \/ \E region \in RegionsFrom(html, 1).regions :
                    region[1] < at /\ at < region[2] /\ html[at].tagName = html[region[1]].tagName

\* the same for disallowed elements that have inside them no tag of another
\* name that opens or closes an element with content
PlainRegionRemoved ==
    (pc = "tree" /\ error.parse = "none") =>
        /\ OnlyAllowed(tree)
        /\ (RegionsFrom(src, 1).complete /\ PlainRegions(src)) =>
              /\ PlacesIn(tree) \cap InsideRegion(src) = {}
              /\ tree = parseHtml(Without(src, OfRegion(src))).tree

\* a text between <script> and </script> is not in the tree, and the text
\* after is
ScriptTextRemoved ==
    /\ pc = "tree" /\ Len(src) = 4
    /\ RegionsFrom(src, 1).regions = {<<1, 3>>}
    /\ src[2].k = "text" /\ src[4].k = "text"
    /\ PlacesIn(tree) = {4}

\* a div has been let through with the allowed declarations of its style and
\* without its data-x
StyleSanitized ==
    /\ pc = "tree" /\ Len(src) = 1 /\ src[1].k = "open" /\ src[1].tagName = "div"
    /\ tree.children[1].attributes
          = ("id" :> <<"1">>) @@ ("style" :> <<"c","o","l","o","r",":","r","e","d",";"," ","f","o","n","t","-","s","i","z","e",":","1","2","p","x">>) @@ ("data-if" :> <<"a">>)

====
